---- MODULE Spec2Model ----
(***************************************************************************)
(* Model of the automatic HVAC controller of src/src/hvac_controller.py:   *)
(* the action selector (_select_actions), the actuation executor            *)
(* (_execute_actions) and the control loop (run_controller), together with  *)
(* the actuator they drive (BravidaClient.force_point / unforce_point /     *)
(* read_point of src/src/bravida_client.py), and of the batch command of    *)
(* src/src/main.py, which drives the same actuator with retries.            *)
(*                                                                          *)
(* Units: temperatures are hundredths of a degree Celsius, relative         *)
(* humidity is whole percent, gas concentrations are ppm, time is seconds.  *)
(***************************************************************************)
EXTENDS Integers, Sequences, FiniteSets, TLC

VARIABLES
    config,            \* the configuration document and CLI overrides of the run
    state_file,        \* content of the persisted controller state file
    clock,             \* time.time()
    pc,                \* position of run_controller
    cycle,             \* number of the current cycle of the while-loop
    last_action_key,   \* local of run_controller (line 213)
    last_action_ts,    \* local of run_controller (line 214)
    readings,          \* parsed sensor values of the current cycle
    conditions,        \* high_rh / condensation_risk / poor_air_quality
    action_key,        \* class key returned by _select_actions
    selected_actions,  \* action list returned by _select_actions
    now_ts,            \* local of run_controller (line 272)
    idx,               \* position of the for-loop of _execute_actions
    all_ok,            \* local of _execute_actions
    calls,             \* actuator calls made in the current cycle, in order
    log,               \* the structured action log (one record per line)
    rc,                \* return value of run_controller
    cyc,               \* history: the current cycle's state file at its start
                       \*          and the branch it took
    executed,          \* history: <<class key, now_ts>> of every cycle that
                       \*          invoked the executor
    sel,               \* inputs and results of two applications of _select_actions
    batch,             \* the batch command of main.py: its arguments, position,
                       \* calls, sleeps, log records and exit code
    signal,            \* whether the process has received an interrupt (Ctrl+C)
    log_table,         \* the rows of the log viewer of gui.py (LogViewerWidget)
    bulk,              \* read_all_points of bulk_reader.py: its futures, worker
                       \* threads and the dict of entries it collects
    ai,                \* the AI analysis tab of gui.py: the analyzer, the state
                       \* scanned, the recommendations table, the commands issued
    dewcalc,           \* one application of _dew_point_c: arguments and result
    sched              \* run_hourly_scheduler of scheduler.py

vars == <<config, state_file, clock, pc, cycle, last_action_key, last_action_ts,
          readings, conditions, action_key, selected_actions, now_ts, idx,
          all_ok, calls, log, rc, cyc, executed, sel, batch, signal, log_table, bulk, ai,
          dewcalc, sched>>

ctlVars == <<config, state_file, clock, pc, cycle, last_action_key, last_action_ts,
             readings, conditions, action_key, selected_actions, now_ts, idx,
             all_ok, calls, log, rc, cyc, executed>>

\* what the control loop does not touch
\* the state of the commands beside the control loop, the batch command and
\* the log viewer
more == <<bulk, ai, dewcalc, sched>>

\* what read_all_points, the AI tab, the dew point function and the hourly
\* scheduler each leave alone
notBulk == <<ctlVars, sel, batch, signal, log_table, ai, dewcalc, sched>>
notAi == <<ctlVars, sel, batch, signal, log_table, bulk, dewcalc, sched>>
notDew == <<ctlVars, sel, batch, signal, log_table, bulk, ai, sched>>
notSched == <<ctlVars, sel, batch, signal, log_table, bulk, ai, dewcalc>>

aux == <<sel, batch, signal, log_table, more>>

-----------------------------------------------------------------------------
(* Bounds of the model.                                                     *)

\* cycles of the while-loop that are explored
MaxCycles == 3
\* time.time() when run_controller starts
StartTime == 10

-----------------------------------------------------------------------------
(* Values.                                                                  *)

\* Python's None where a string is expected
NoneStr == "<None>"

\* Optional[float]
NoValue == [has |-> FALSE, v |-> 0]
Some(x) == [has |-> TRUE, v |-> x]

Range(s) == {s[i] : i \in 1..Len(s)}

\* An action spec of the configuration: a JSON object whose keys "action",
\* "point" and "value" may be absent (NoneStr).
Act(op, point, value) == [action |-> op, point |-> point, value |-> value]

-----------------------------------------------------------------------------
(* _select_actions                                                          *)

\* "+".join(key_parts)
RECURSIVE Join(_)
Join(parts) ==
    IF Len(parts) = 0 THEN ""
    ELSE IF Len(parts) = 1 THEN parts[1]
    ELSE parts[1] \o "+" \o Join(Tail(parts))

\* actions.get(name, [])
TableGet(actions, name) ==
    IF name \in DOMAIN actions THEN actions[name] ELSE <<>>

\* a slip: only the first condition that fired names the class
FirstPartKey(key_parts) == key_parts[1]

\* the key computed at the return statements of lines 94 and 100
JoinedKey(key_parts) == Join(key_parts)

\* a slip: the early return of line 88 is missing, so the high_rh list follows
CondensationThenHighRh(actions) ==
    [key |-> "condensation_risk",
     actions |-> TableGet(actions, "on_condensation_risk")
                 \o TableGet(actions, "on_high_rh")]

\* the branch taken when condensation_risk holds and combine_actions is false
CondensationOnly(actions) ==
    [key |-> "condensation_risk",
     actions |-> TableGet(actions, "on_condensation_risk")]

\* a slip: the class is named after what the table holds
AirQualityKeyFromList(actions) ==
    [key |-> IF TableGet(actions, "on_air_quality") = <<>>
             THEN "normal" ELSE "poor_air_quality",
     actions |-> TableGet(actions, "on_air_quality")]

\* the branch taken when poor_air_quality holds
AirQualityOnly(actions) ==
    [key |-> "poor_air_quality",
     actions |-> TableGet(actions, "on_air_quality")]

\* the fall-through of lines 96-98
NormalPlan(actions, selected) ==
    [key |-> "normal",
     actions |-> selected \o TableGet(actions, "on_normal")]

\* a slip: in combine mode the normal actions follow the high_rh ones
SelectHighRhWithNormal(conds, actions, combine_actions, key_parts, selected) ==
    LET parts2 == IF conds.high_rh THEN Append(key_parts, "high_rh") ELSE key_parts
        sel2   == IF conds.high_rh
                  THEN selected \o TableGet(actions, "on_high_rh")
                  ELSE selected
    IN  IF Len(parts2) = 0
        THEN [key |-> "normal", actions |-> TableGet(actions, "on_normal")]
        ELSE IF combine_actions
        THEN [key |-> Join(parts2),
              actions |-> sel2 \o TableGet(actions, "on_normal")]
        ELSE [key |-> Join(parts2), actions |-> sel2]

\* lines 90-100, entered with the key_parts and selected built so far
SelectHighRh(conds, actions, combine_actions, key_parts, selected) ==
    LET parts2 == IF conds.high_rh THEN Append(key_parts, "high_rh") ELSE key_parts
        sel2   == IF conds.high_rh
                  THEN selected \o TableGet(actions, "on_high_rh")
                  ELSE selected
    IN  IF conds.high_rh /\ ~combine_actions /\ Len(parts2) > 0
        THEN [key |-> JoinedKey(parts2), actions |-> sel2]
        ELSE IF Len(parts2) = 0
        THEN NormalPlan(actions, sel2)
        ELSE [key |-> JoinedKey(parts2), actions |-> sel2]

\* a slip: poor_air_quality returns early only when combine_actions is false
SelectActionsCombinesAirQuality(conds, actions, combine_actions) ==
    IF conds.poor_air_quality /\ ~combine_actions
    THEN AirQualityOnly(actions)
    ELSE LET parts0 == IF conds.poor_air_quality
                       THEN <<"poor_air_quality">> ELSE <<>>
             sel0   == IF conds.poor_air_quality
                       THEN TableGet(actions, "on_air_quality") ELSE <<>>
         IN  IF conds.condensation_risk /\ ~combine_actions
             THEN CondensationOnly(actions)
             ELSE IF conds.condensation_risk
             THEN SelectHighRh(conds, actions, combine_actions,
                               Append(parts0, "condensation_risk"),
                               sel0 \o TableGet(actions, "on_condensation_risk"))
             ELSE SelectHighRh(conds, actions, combine_actions, parts0, sel0)

\* _select_actions(conditions, actions, combine_actions)
_select_actions(conds, actions, combine_actions) ==
    IF conds.poor_air_quality
    THEN AirQualityOnly(actions)
    ELSE IF conds.condensation_risk /\ ~combine_actions
    THEN CondensationOnly(actions)
    ELSE IF conds.condensation_risk
    THEN SelectHighRh(conds, actions, combine_actions,
                      <<"condensation_risk">>,
                      TableGet(actions, "on_condensation_risk"))
    ELSE SelectHighRh(conds, actions, combine_actions, <<>>, <<>>)

-----------------------------------------------------------------------------
(* Sensor values and the condition classifier (run_controller, 247-256).    *)

\* The text a read returns in ForceResult.updated_value: None (the read
\* failed), a text that is no number, or the decimal text of a number.
RawNone == [kind |-> "none", num |-> 0]
RawText == [kind |-> "text", num |-> 0]
RawNum(n) == [kind |-> "num", num |-> n]

\* _parse_float(value)
_parse_float(raw) ==
    IF raw.kind = "num" THEN Some(raw.num) ELSE NoValue

\* math.log(max(rh_percent, 0.1) / 100.0), in thousandths, at the humidity
\* values the sensors of the model report
LnMilli(rh_percent) ==
    CASE rh_percent <= 0  -> -6908
      [] rh_percent = 1   -> -4605
      [] rh_percent = 10  -> -2303
      [] rh_percent = 30  -> -1204
      [] rh_percent = 50  -> -693
      [] rh_percent = 60  -> -511
      [] rh_percent = 65  -> -431
      [] rh_percent = 90  -> -105
      [] rh_percent = 99  -> -10
      [] rh_percent = 100 -> 0

\* a slip: a + gamma in the denominator
_dew_point_c_plus(temp_c, rh_percent) ==
    LET gamma == ((1762 * temp_c * 10) \div (24312 + temp_c)) + LnMilli(rh_percent)
    IN  (24312 * gamma) \div (17620 + gamma)

\* whether _dew_point_c raises ZeroDivisionError: b + temp_c is zero, or
\* a - gamma is
DewPointRaises(temp_c, rh_percent) ==
    \/ 24312 + temp_c = 0
    \/ 17620 - (((1762 * temp_c * 10) \div (24312 + temp_c))
                  + LnMilli(rh_percent)) = 0

\* _dew_point_c(temp_c, rh_percent): gamma in thousandths, result in
\* hundredths of a degree
_dew_point_c(temp_c, rh_percent) ==
    LET gamma == ((1762 * temp_c * 10) \div (24312 + temp_c)) + LnMilli(rh_percent)
    IN  (24312 * gamma) \div (17620 - gamma)

\* a slip: high_rh needs the humidity to exceed max_rh
ClassifyStrictRh(r, thresholds) ==
    LET dew == _dew_point_c(r.indoor_temp_c.v, r.indoor_rh.v)
        co_bad  == /\ thresholds.max_co_ppm.has /\ r.co_ppm.has
                   /\ r.co_ppm.v >= thresholds.max_co_ppm.v
        co2_bad == /\ thresholds.max_co2_ppm.has /\ r.co2_ppm.has
                   /\ r.co2_ppm.v >= thresholds.max_co2_ppm.v
    IN  [high_rh |-> r.indoor_rh.v > thresholds.max_rh,
         condensation_risk |->
             /\ r.outdoor_temp_c.has
             /\ r.outdoor_temp_c.v <= dew - thresholds.condensation_margin_c,
         poor_air_quality |-> co_bad \/ co2_bad]

\* a slip: an outdoor temperature without a parsed value counts as zero
ClassifyAbsentOutdoorZero(r, thresholds) ==
    LET dew == _dew_point_c(r.indoor_temp_c.v, r.indoor_rh.v)
        co_bad  == /\ thresholds.max_co_ppm.has /\ r.co_ppm.has
                   /\ r.co_ppm.v >= thresholds.max_co_ppm.v
        co2_bad == /\ thresholds.max_co2_ppm.has /\ r.co2_ppm.has
                   /\ r.co2_ppm.v >= thresholds.max_co2_ppm.v
    IN  [high_rh |-> r.indoor_rh.v >= thresholds.max_rh,
         condensation_risk |->
             r.outdoor_temp_c.v <= dew - thresholds.condensation_margin_c,
         poor_air_quality |-> co_bad \/ co2_bad]

\* a slip: the gas readings are compared with > instead of >=
ClassifyStrictGas(r, thresholds) ==
    LET dew == _dew_point_c(r.indoor_temp_c.v, r.indoor_rh.v)
        co_bad  == /\ thresholds.max_co_ppm.has /\ r.co_ppm.has
                   /\ r.co_ppm.v > thresholds.max_co_ppm.v
        co2_bad == /\ thresholds.max_co2_ppm.has /\ r.co2_ppm.has
                   /\ r.co2_ppm.v > thresholds.max_co2_ppm.v
    IN  [high_rh |-> r.indoor_rh.v >= thresholds.max_rh,
         condensation_risk |->
             /\ r.outdoor_temp_c.has
             /\ r.outdoor_temp_c.v <= dew - thresholds.condensation_margin_c,
         poor_air_quality |-> co_bad \/ co2_bad]

\* lines 248-256
Classify(r, thresholds) ==
    LET dew == _dew_point_c(r.indoor_temp_c.v, r.indoor_rh.v)
        co_bad  == /\ thresholds.max_co_ppm.has /\ r.co_ppm.has
                   /\ r.co_ppm.v >= thresholds.max_co_ppm.v
        co2_bad == /\ thresholds.max_co2_ppm.has /\ r.co2_ppm.has
                   /\ r.co2_ppm.v >= thresholds.max_co2_ppm.v
    IN  [high_rh |-> r.indoor_rh.v >= thresholds.max_rh,
         condensation_risk |->
             /\ r.outdoor_temp_c.has
             /\ r.outdoor_temp_c.v <= dew - thresholds.condensation_margin_c,
         poor_air_quality |-> co_bad \/ co2_bad]

NoReadings ==
    [indoor_temp_c |-> NoValue, indoor_rh |-> NoValue, outdoor_temp_c |-> NoValue,
     co_ppm |-> NoValue, co2_ppm |-> NoValue]

NoConditions ==
    [high_rh |-> FALSE, condensation_risk |-> FALSE, poor_air_quality |-> FALSE]

-----------------------------------------------------------------------------
(* The cooldown store (_load_state, _save_state) and the cooldown test.     *)

\* Content of the state file. kind is "absent" (no file), "invalid_json"
\* (unreadable or not JSON), "non_object" (JSON that is no object) or
\* "object"; ts_is_number is FALSE for an object whose last_action_ts is not
\* a number.
StateContent(kind, key, ts, ts_is_number, ok) ==
    [kind |-> kind, last_action_key |-> key, last_action_ts |-> ts,
     ts_is_number |-> ts_is_number, last_actions_ok |-> ok]

AbsentState == StateContent("absent", NoneStr, 0, TRUE, FALSE)

\* _load_state(path): {} when the file is absent, unreadable or not JSON,
\* else whatever JSON value the file holds
_load_state(file) ==
    IF file.kind \in {"absent", "invalid_json"}
    THEN StateContent("object", NoneStr, 0, TRUE, FALSE)
    ELSE file

\* state_payload of lines 298-303 as written by _save_state
SavedState(key, ts, ok) == StateContent("object", key, ts, TRUE, ok)

\* a slip: the comparison of line 273 is turned around
CooldownInverted(key, last_key, now, last_ts, cooldown_seconds) ==
    key = last_key /\ (now - last_ts) > cooldown_seconds

\* the test of line 273, for a last_action_ts that float() accepts
CooldownActive(key, last_key, now, last_ts, cooldown_seconds) ==
    key = last_key /\ (now - last_ts) < cooldown_seconds

-----------------------------------------------------------------------------
(* The actuator (BravidaClient) and _execute_actions.                       *)

\* What a call of force_point / unforce_point / read_point can do: return a
\* result with success, return a result without it (the except clause), or
\* raise: the page is not initialised (raised before the try), the
\* AssertionError of expect(...).to_be_visible in _guard_dialog_point is not
\* among the exceptions caught, or _capture_failure raises in the except
\* clause.
ActuatorOutcomes == {"ok", "fail", "raise"}

\* one call received by the actuator
Call(op, point, value, dry_run, in_plan) ==
    [op |-> op, point |-> point, value |-> value, dry_run |-> dry_run,
     in_plan |-> in_plan]

\* whether a call that runs to its end clicks the OK button of the dialog,
\* which commits the change: force_point returns before the click when
\* dry_run is set (lines 266-274), unforce_point always clicks (line 313),
\* read_point clicks Cancel (lines 342-343)
ClicksOk(c) ==
    \/ c.op = "force" /\ ~c.dry_run
    \/ c.op = "unforce"

\* the keys of the conditions dict (lines 258-268), which the evaluation
\* records spread into the payload
ConditionKeys ==
    {"indoor_temp_c", "indoor_rh_percent", "outdoor_temp_c", "co_ppm",
     "co2_ppm", "dew_point_c", "high_rh", "condensation_risk",
     "poor_air_quality"}

\* the keys of the payload run_controller and _execute_actions hand to
\* log_action: lines 221-227 (missing reading), 277-282 (cooldown), 288-294
\* (evaluation), 115 (no point), 120-126 and 139-144 (other rejections) and
\* 151-160 (result of a call)
RecordKeys(action, message) ==
    {"action", "success", "message"} \cup
    CASE action = "auto_evaluate"
           /\ message = "Failed to parse indoor sensor values."
             -> {"indoor_temp_value", "indoor_rh_value"}
      [] action = "auto_evaluate"
           /\ message = "Cooldown active; skipping actions."
             -> ConditionKeys \cup {"action_key"}
      [] action = "auto_evaluate"
             -> ConditionKeys \cup {"action_key", "selected_actions"}
      [] action = "auto_action" /\ message = "Missing point." -> {}
      [] action = "auto_action" -> {"point"}
      [] OTHER -> {"point", "value", "updated_value", "screenshot", "dry_run"}

\* one record of the action log (log_action); keys is the set of keys the
\* payload has, point and dry_run stand for None and False where the payload
\* has no such key
LogRecord(action, point, success, message, dry_run) ==
    [action |-> action, point |-> point, success |-> success,
     message |-> message, dry_run |-> dry_run,
     keys |-> RecordKeys(action, message)]

\* the record of lines 285-295, which lists the selected actions
EvaluationRecord(plan) ==
    LogRecord("auto_evaluate", NoneStr, TRUE, "Evaluation complete.", FALSE)
        @@ [selected_actions |-> plan]

\* str(...).lower() of the operation names the configurations use
Lower(op) ==
    CASE op = "Force" -> "force"
      [] op = "READ"  -> "read"
      [] OTHER        -> op

\* variant of OpOf without the default: an action that names no operation
\* has none
OpOfNoDefault(a) == Lower(a.action)

\* op = str(action.get("action", "force")).lower()
OpOf(a) == IF a.action = NoneStr THEN "force" ELSE Lower(a.action)

\* `not point` (line 114): the key is absent or the point is empty
MissingPoint(a) == a.point = NoneStr \/ a.point = ""

\* a slip: a force without a value is passed on to the actuator
RejectedUnlessForce(a) ==
    \/ MissingPoint(a)
    \/ OpOf(a) \notin {"force", "unforce", "read"}

\* the actions _execute_actions rejects without calling the actuator
Rejected(a) ==
    \/ MissingPoint(a)
    \/ OpOf(a) = "force" /\ a.value = NoneStr
    \/ OpOf(a) \notin {"force", "unforce", "read"}

\* the message of the record written for a rejected action
RejectMessage(a) ==
    IF MissingPoint(a) THEN "Missing point."
    ELSE IF OpOf(a) = "force" THEN "Missing value for force."
    ELSE "Unsupported action."

\* all_ok = all_ok and result.success (line 162)
Aggregate(ok_so_far, success) == ok_so_far /\ success

\* a slip: an action whose call failed is tried again
NextIndexRetry(i, success) == IF success THEN i + 1 ELSE i

\* the for-loop of line 110: the next action to visit after action i
NextIndex(i, success) == i + 1

\* a slip: the dry_run of the cycle is not handed to force_point
CallForIgnoresDryRun(a, dry_run) ==
    Call(OpOf(a), a.point, IF OpOf(a) = "force" THEN a.value ELSE NoneStr,
         FALSE, TRUE)

\* lines 131-135: the call made for a well-formed action; only force_point
\* is given the value and dry_run
CallFor(a, dry_run) ==
    Call(OpOf(a), a.point, IF OpOf(a) = "force" THEN a.value ELSE NoneStr,
         IF OpOf(a) = "force" THEN dry_run ELSE FALSE, TRUE)

-----------------------------------------------------------------------------
(* Configurations, sensor values and state files the runs start from.       *)

\* the action table of a complete configuration
TableFull ==
    [on_air_quality |-> <<Act("force", "fan", "100")>>,
     on_condensation_risk |-> <<Act("force", "valve", "30"),
                                Act("read", "valve", NoneStr)>>,
     on_high_rh |-> <<Act("unforce", "damper", NoneStr),
                      Act(NoneStr, "fan", "80")>>,
     on_normal |-> <<Act("unforce", "fan", NoneStr)>>]

\* an action table with malformed action specs and without on_air_quality
\* and on_normal
TableMalformed ==
    [on_condensation_risk |-> <<Act("Force", "valve", "30")>>,
     on_high_rh |-> <<Act("force", NoneStr, "1"),
                      Act("force", "fan", NoneStr),
                      Act("toggle", "fan", "1"),
                      Act("READ", "fan", NoneStr)>>]

\* a short action table without on_normal
TableSmall ==
    [on_air_quality |-> <<Act("force", "fan", "100")>>,
     on_condensation_risk |-> <<Act("force", "valve", "30")>>,
     on_high_rh |-> <<Act("unforce", "damper", NoneStr)>>]

\* thresholds (lines 206-209): max_rh and condensation_margin_c take their
\* defaults, the gas thresholds are optional
Thresholds(with_gas) ==
    [max_rh |-> 60, condensation_margin_c |-> 200,
     max_co_ppm |-> IF with_gas THEN Some(30) ELSE NoValue,
     max_co2_ppm |-> IF with_gas THEN Some(1000) ELSE NoValue]

\* thresholds that the sensor values of the model meet exactly: max_rh at
\* the higher humidity, the gas limits at the higher concentrations, and a
\* margin that puts dew point - margin at the lower outdoor temperature when
\* the humidity is the lower one
EdgeThresholds ==
    [max_rh |-> 65,
     condensation_margin_c |-> _dew_point_c(2100, 50) + 500,
     max_co_ppm |-> Some(50),
     max_co2_ppm |-> Some(1200)]

\* which optional sensor points the configuration names (lines 199-201)
SensorsNone == [outdoor_temp |-> FALSE, co |-> FALSE, co2 |-> FALSE]
SensorsOutdoor == [outdoor_temp |-> TRUE, co |-> FALSE, co2 |-> FALSE]
SensorsOutdoorCo2 == [outdoor_temp |-> TRUE, co |-> FALSE, co2 |-> TRUE]
SensorsAll == [outdoor_temp |-> TRUE, co |-> TRUE, co2 |-> TRUE]

CycleSecondsChoices == {1}
CooldownSecondsChoices == {3}

\* seconds by which a sleep and the calls of a cycle may exceed cycle_seconds
DriftChoices == {0, 1}

\* config file, CLI flags and the arguments of run_controller (lines 177-209),
\* for the runs with --once: every table, sensor set and dry-run setting
OnceConfigs ==
    [once : {TRUE},
     required_mapped : {TRUE},
     combine_actions : BOOLEAN,
     dry_run : BOOLEAN,
     cli_dry_run : BOOLEAN,
     actions : {TableFull, TableMalformed},
     sensors : {SensorsNone, SensorsOutdoor, SensorsAll},
     thresholds : {Thresholds(TRUE), Thresholds(FALSE)},
     cycle_seconds : CycleSecondsChoices,
     cooldown_seconds : CooldownSecondsChoices]

\* the same for the runs that loop forever
ForeverConfigs ==
    [once : {FALSE},
     required_mapped : {TRUE},
     combine_actions : BOOLEAN,
     dry_run : {FALSE},
     cli_dry_run : {FALSE},
     actions : {TableSmall},
     sensors : {SensorsOutdoorCo2},
     thresholds : {Thresholds(TRUE)},
     cycle_seconds : CycleSecondsChoices,
     cooldown_seconds : CooldownSecondsChoices]

\* a run that loops forever with dry_run set in the configuration file
DryRunForeverConfigs ==
    [once : {FALSE},
     required_mapped : {TRUE},
     combine_actions : {TRUE},
     dry_run : {TRUE},
     cli_dry_run : {FALSE},
     actions : {TableSmall},
     sensors : {SensorsOutdoor},
     thresholds : {Thresholds(TRUE)},
     cycle_seconds : CycleSecondsChoices,
     cooldown_seconds : CooldownSecondsChoices]

\* configurations whose sensors lack indoor_temp or indoor_rh
UnmappedConfigs ==
    [once : BOOLEAN,
     required_mapped : {FALSE},
     combine_actions : {TRUE},
     dry_run : {FALSE},
     cli_dry_run : {FALSE},
     actions : {TableSmall},
     sensors : {SensorsNone},
     thresholds : {Thresholds(FALSE)},
     cycle_seconds : CycleSecondsChoices,
     cooldown_seconds : CooldownSecondsChoices]

\* runs with --once under the thresholds the sensor values meet exactly
EdgeConfigs ==
    [once : {TRUE},
     required_mapped : {TRUE},
     combine_actions : BOOLEAN,
     dry_run : {FALSE},
     cli_dry_run : {FALSE},
     actions : {TableFull},
     sensors : {SensorsNone, SensorsOutdoor, SensorsAll},
     thresholds : {EdgeThresholds},
     cycle_seconds : CycleSecondsChoices,
     cooldown_seconds : CooldownSecondsChoices]

Configs == OnceConfigs \cup ForeverConfigs

\* variant of DryRun in which the flag of the command line is always handed
\* over as the override (dry_run_override = args.dry_run)
DryRunFromCliOnly(cfg) == cfg.cli_dry_run

\* dry_run after the override of lines 192-193, called with
\* dry_run_override = args.dry_run if args.dry_run else None (main.py, 462)
DryRun(cfg) == IF cfg.cli_dry_run THEN TRUE ELSE cfg.dry_run

\* what a successful read of each sensor point can show
IndoorTempValues == {RawText, RawNum(2100)}
IndoorRhValues == {RawNum(50), RawNum(65)}
OutdoorTempValues == {RawNum(-500), RawNum(1500)}
CoValues == {RawNum(5), RawNum(50)}
Co2Values == {RawNum(800), RawNum(1200)}

\* state files a run can find: none, garbage, JSON that is no object, an
\* object with a non-numeric timestamp, and states written by earlier runs
InitialStateFiles ==
    {AbsentState,
     StateContent("invalid_json", NoneStr, 0, TRUE, FALSE),
     StateContent("non_object", NoneStr, 0, TRUE, FALSE),
     StateContent("object", "high_rh", 0, FALSE, TRUE),
     SavedState("high_rh", StartTime - 1, TRUE),
     SavedState("high_rh", StartTime - 1, FALSE),
     SavedState("normal", 0, TRUE)}

-----------------------------------------------------------------------------
(* run_controller                                                           *)

NoCycle == [start_file |-> AbsentState, path |-> "none"]

CtlInit ==
    /\ \/ config \in Configs /\ state_file \in InitialStateFiles
       \/ config \in DryRunForeverConfigs \cup UnmappedConfigs \cup EdgeConfigs
          /\ state_file = AbsentState
    /\ clock = StartTime
    /\ pc = "start"
    /\ cycle = 1
    /\ last_action_key = NoneStr
    /\ last_action_ts = [num |-> 0, is_number |-> TRUE]
    /\ readings = NoReadings
    /\ conditions = NoConditions
    /\ action_key = NoneStr
    /\ selected_actions = <<>>
    /\ now_ts = 0
    /\ idx = 0
    /\ all_ok = TRUE
    /\ calls = <<>>
    /\ log = <<>>
    /\ rc = -1
    /\ cyc = NoCycle
    /\ executed = <<>>

\* lines 197-204: a configuration without sensors.indoor_temp or
\* sensors.indoor_rh raises ValueError before the loop is entered
RequireSensors ==
    /\ pc = "start"
    /\ pc' = IF config.required_mapped THEN "load" ELSE "raised"
    /\ UNCHANGED <<config, state_file, clock, cycle, last_action_key,
                   last_action_ts, readings, conditions, action_key,
                   selected_actions, now_ts, idx, all_ok, calls, log, rc, cyc,
                   executed, aux>>

\* lines 212-214: state = _load_state(...); state.get(...) raises when the
\* file holds JSON that is no object
LoadStateStep ==
    /\ pc = "load"
    /\ LET state == _load_state(state_file)
       IN  IF state.kind = "non_object"
           THEN /\ pc' = "raised"
                /\ UNCHANGED <<last_action_key, last_action_ts>>
           ELSE /\ pc' = "read_temp"
                /\ last_action_key' = state.last_action_key
                /\ last_action_ts' = [num |-> state.last_action_ts,
                                      is_number |-> state.ts_is_number]
    /\ cyc' = [start_file |-> state_file,
               path |-> IF _load_state(state_file).kind = "non_object"
                        THEN "state_error" ELSE "running"]
    /\ UNCHANGED <<config, state_file, clock, cycle, readings, conditions,
                   action_key, selected_actions, now_ts, idx, all_ok, calls,
                   log, rc, executed, aux>>

\* _read_point_value(client, point) for one sensor: the call, and the parsed
\* value stored in the field `name` of readings
_read_point_value(name, point, values, next_pc) ==
    \E out \in ActuatorOutcomes, raw \in values \cup {RawNone} :
        /\ (out = "ok") => raw \in values
        /\ (out # "ok") => raw = RawNone
        /\ calls' = Append(calls, Call("read", point, NoneStr, FALSE, FALSE))
        /\ IF out = "raise"
           THEN pc' = "raised" /\ UNCHANGED readings
           ELSE /\ pc' = next_pc
                /\ readings' = [readings EXCEPT ![name] = _parse_float(raw)]
        /\ UNCHANGED <<config, state_file, clock, cycle, last_action_key,
                       last_action_ts, conditions, action_key, selected_actions,
                       now_ts, idx, all_ok, log, rc, cyc, executed, aux>>

\* an optional sensor whose point the configuration does not name is not read
SkipSensor(next_pc) ==
    /\ pc' = next_pc
    /\ UNCHANGED <<config, state_file, clock, cycle, last_action_key,
                   last_action_ts, readings, conditions, action_key,
                   selected_actions, now_ts, idx, all_ok, calls, log, rc, cyc,
                   executed, aux>>

\* line 216
ReadIndoorTemp ==
    /\ pc = "read_temp"
    /\ _read_point_value("indoor_temp_c", "indoor_temp", IndoorTempValues, "read_rh")

\* line 217
ReadIndoorRh ==
    /\ pc = "read_rh"
    /\ _read_point_value("indoor_rh", "indoor_rh", IndoorRhValues, "check_required")

\* a slip: the missing value is logged but the cycle goes on to the optional
\* sensors
MissingRequiredGoesOn ==
    /\ pc = "check_required"
    /\ ~readings.indoor_temp_c.has \/ ~readings.indoor_rh.has
    /\ log' = Append(log, LogRecord("auto_evaluate", NoneStr, FALSE,
                                    "Failed to parse indoor sensor values.", FALSE))
    /\ cyc' = [cyc EXCEPT !.path = "missing"]
    /\ pc' = "read_co"
    /\ UNCHANGED <<config, state_file, clock, cycle, last_action_key,
                   last_action_ts, readings, conditions, action_key,
                   selected_actions, now_ts, idx, all_ok, calls, rc, executed, aux>>

\* lines 219-233: a required value is missing
MissingRequired ==
    /\ pc = "check_required"
    /\ ~readings.indoor_temp_c.has \/ ~readings.indoor_rh.has
    /\ log' = Append(log, LogRecord("auto_evaluate", NoneStr, FALSE,
                                    "Failed to parse indoor sensor values.", FALSE))
    /\ cyc' = [cyc EXCEPT !.path = "missing"]
    /\ IF config.once
       THEN rc' = 1 /\ pc' = "returned"
       ELSE rc' = rc /\ pc' = "sleep"
    /\ UNCHANGED <<config, state_file, clock, cycle, last_action_key,
                   last_action_ts, readings, conditions, action_key,
                   selected_actions, now_ts, idx, all_ok, calls, executed, aux>>

\* lines 235-238
ReadOutdoorTemp ==
    /\ pc = "check_required"
    /\ readings.indoor_temp_c.has /\ readings.indoor_rh.has
    /\ IF config.sensors.outdoor_temp
       THEN _read_point_value("outdoor_temp_c", "outdoor_temp", OutdoorTempValues, "read_co")
       ELSE SkipSensor("read_co")

\* lines 242-243
ReadCo ==
    /\ pc = "read_co"
    /\ IF config.sensors.co
       THEN _read_point_value("co_ppm", "co", CoValues, "read_co2")
       ELSE SkipSensor("read_co2")

\* lines 244-245
ReadCo2 ==
    /\ pc = "read_co2"
    /\ IF config.sensors.co2
       THEN _read_point_value("co2_ppm", "co2", Co2Values, "classify")
       ELSE SkipSensor("classify")

\* a slip: a class that was acted on last time is kept while nothing else
\* is found
ClassifyAndSelectSticky ==
    /\ pc = "classify"
    /\ LET conds == Classify(readings, config.thresholds)
           plan  == _select_actions(conds, config.actions, config.combine_actions)
           kept  == plan.key = "normal" /\ last_action_key = "high_rh"
       IN  /\ conditions' = conds
           /\ action_key' = IF kept THEN "high_rh" ELSE plan.key
           /\ selected_actions' = IF kept
                                  THEN TableGet(config.actions, "on_high_rh")
                                  ELSE plan.actions
    /\ pc' = "cooldown"
    /\ UNCHANGED <<config, state_file, clock, cycle, last_action_key,
                   last_action_ts, readings, now_ts, idx, all_ok, calls, log,
                   rc, cyc, executed, aux>>

\* a slip: the plan is built by extending the list of the action table
\* itself, which so grows by the on_high_rh actions whenever high_rh follows
\* condensation_risk in combine mode, and by itself otherwise
ClassifyAndSelectExtendsTable ==
    /\ pc = "classify"
    /\ LET conds == Classify(readings, config.thresholds)
           plan  == _select_actions(conds, config.actions, config.combine_actions)
           name  == IF conds.poor_air_quality THEN "on_air_quality"
                    ELSE IF conds.condensation_risk THEN "on_condensation_risk"
                    ELSE IF conds.high_rh THEN "on_high_rh"
                    ELSE "on_normal"
       IN  /\ conditions' = conds
           /\ action_key' = plan.key
           /\ selected_actions' = plan.actions \o plan.actions
           /\ config' = [config EXCEPT !.actions =
                            [n \in DOMAIN config.actions \cup {name} |->
                                IF n = name THEN plan.actions \o plan.actions
                                ELSE config.actions[n]]]
    /\ pc' = "cooldown"
    /\ UNCHANGED <<state_file, clock, cycle, last_action_key,
                   last_action_ts, readings, now_ts, idx, all_ok, calls, log,
                   rc, cyc, executed, aux>>

\* lines 247-270
ClassifyAndSelect ==
    /\ pc = "classify"
    /\ LET conds == Classify(readings, config.thresholds)
           plan  == _select_actions(conds, config.actions, config.combine_actions)
       IN  /\ conditions' = conds
           /\ action_key' = plan.key
           /\ selected_actions' = plan.actions
    /\ pc' = "cooldown"
    /\ UNCHANGED <<config, state_file, clock, cycle, last_action_key,
                   last_action_ts, readings, now_ts, idx, all_ok, calls, log,
                   rc, cyc, executed, aux>>

\* lines 272-283: the class key is the last one and float(last_action_ts)
\* is inside the cooldown window; the plan is skipped
CooldownSkip ==
    /\ pc = "cooldown"
    /\ action_key = last_action_key
    /\ last_action_ts.is_number
    /\ CooldownActive(action_key, last_action_key, clock, last_action_ts.num,
                      config.cooldown_seconds)
    /\ now_ts' = clock
    /\ log' = Append(log, LogRecord("auto_evaluate", NoneStr, TRUE,
                                    "Cooldown active; skipping actions.", FALSE))
    /\ cyc' = [cyc EXCEPT !.path = "suppressed"]
    /\ pc' = "end_cycle"
    /\ UNCHANGED <<config, state_file, clock, cycle, last_action_key,
                   last_action_ts, readings, conditions, action_key,
                   selected_actions, idx, all_ok, calls, rc, executed, aux>>

\* line 273 with the same class key and a last_action_ts that float() rejects
CooldownRaise ==
    /\ pc = "cooldown"
    /\ action_key = last_action_key
    /\ ~last_action_ts.is_number
    /\ now_ts' = clock
    /\ cyc' = [cyc EXCEPT !.path = "state_error"]
    /\ pc' = "raised"
    /\ UNCHANGED <<config, state_file, clock, cycle, last_action_key,
                   last_action_ts, readings, conditions, action_key,
                   selected_actions, idx, all_ok, calls, log, rc, executed,
                   aux>>

\* lines 284-297: the evaluation is logged and _execute_actions is entered
\* (all_ok = True, line 109)
CooldownPass ==
    /\ pc = "cooldown"
    /\ \/ action_key # last_action_key
       \/ /\ last_action_ts.is_number
          /\ ~CooldownActive(action_key, last_action_key, clock,
                             last_action_ts.num, config.cooldown_seconds)
    /\ now_ts' = clock
    /\ log' = Append(log, EvaluationRecord(selected_actions))
    /\ cyc' = [cyc EXCEPT !.path = "execute"]
    /\ executed' = Append(executed, <<action_key, clock>>)
    /\ idx' = 1
    /\ all_ok' = TRUE
    /\ pc' = "execute"
    /\ UNCHANGED <<config, state_file, clock, cycle, last_action_key,
                   last_action_ts, readings, conditions, action_key,
                   selected_actions, calls, rc, aux>>

\* lines 114-130 and 136-147: the action is rejected, logged as failed, and
\* the loop continues
RejectAction ==
    /\ pc = "execute"
    /\ idx <= Len(selected_actions)
    /\ LET a == selected_actions[idx]
       IN  /\ Rejected(a)
           /\ log' = Append(log, LogRecord("auto_action", a.point, FALSE,
                                           RejectMessage(a), FALSE))
           /\ all_ok' = FALSE
           /\ idx' = NextIndex(idx, FALSE)
    /\ UNCHANGED <<config, state_file, clock, pc, cycle, last_action_key,
                   last_action_ts, readings, conditions, action_key,
                   selected_actions, now_ts, calls, rc, cyc, executed, aux>>

\* lines 131-135 and 149-162: the actuator is called once; its result is
\* logged and aggregated, or its exception leaves _execute_actions and
\* run_controller
CallActuator ==
    /\ pc = "execute"
    /\ idx <= Len(selected_actions)
    /\ LET a  == selected_actions[idx]
           op == OpOf(a)
       IN  /\ ~Rejected(a)
           /\ \E out \in ActuatorOutcomes :
                /\ calls' = Append(calls, CallFor(a, DryRun(config)))
                /\ IF out = "raise"
                   THEN /\ pc' = "raised"
                        /\ UNCHANGED <<log, all_ok, idx>>
                   ELSE /\ pc' = pc
                        /\ log' = Append(log,
                               LogRecord("auto_" \o op, a.point, out = "ok",
                                         NoneStr, DryRun(config)))
                        /\ all_ok' = Aggregate(all_ok, out = "ok")
                        /\ idx' = NextIndex(idx, out = "ok")
    /\ UNCHANGED <<config, state_file, clock, cycle, last_action_key,
                   last_action_ts, readings, conditions, action_key,
                   selected_actions, now_ts, rc, cyc, executed, aux>>

\* line 164 and lines 297-304: _execute_actions returns all_ok and the new
\* state is saved
Persist ==
    /\ pc = "execute"
    /\ idx > Len(selected_actions)
    /\ state_file' = SavedState(action_key, now_ts, all_ok)
    /\ pc' = "end_cycle"
    /\ UNCHANGED <<config, clock, cycle, last_action_key, last_action_ts,
                   readings, conditions, action_key, selected_actions, now_ts,
                   idx, all_ok, calls, log, rc, cyc, executed, aux>>

\* _save_state (lines 62-64) when the process is stopped inside
\* path.write_text: the file was opened for writing, which empties it, and
\* the JSON text has not, or not all, reached it
StoppedInSaveState ==
    /\ pc = "execute"
    /\ idx > Len(selected_actions)
    /\ state_file' = StateContent("invalid_json", NoneStr, 0, TRUE, FALSE)
    /\ pc' = "stopped"
    /\ UNCHANGED <<config, clock, cycle, last_action_key, last_action_ts,
                   readings, conditions, action_key, selected_actions, now_ts,
                   idx, all_ok, calls, log, rc, cyc, executed, aux>>

\* lines 306-307
ReturnOnce ==
    /\ pc = "end_cycle"
    /\ config.once
    /\ rc' = 0
    /\ pc' = "returned"
    /\ UNCHANGED <<config, state_file, clock, cycle, last_action_key,
                   last_action_ts, readings, conditions, action_key,
                   selected_actions, now_ts, idx, all_ok, calls, log, cyc,
                   executed, aux>>

\* line 308: the cycle is over, the loop goes on to time.sleep
EndCycle ==
    /\ pc = "end_cycle"
    /\ ~config.once
    /\ pc' = "sleep"
    /\ UNCHANGED <<config, state_file, clock, cycle, last_action_key,
                   last_action_ts, readings, conditions, action_key,
                   selected_actions, now_ts, idx, all_ok, calls, log, rc, cyc,
                   executed, aux>>

\* a slip: the loop starts its next iteration without sleeping cycle_seconds
SleepTooShort ==
    /\ pc = "sleep"
    /\ cycle < MaxCycles
    /\ \E drift \in DriftChoices : clock' = clock + drift
    /\ cycle' = cycle + 1
    /\ pc' = "load"
    /\ readings' = NoReadings
    /\ conditions' = NoConditions
    /\ action_key' = NoneStr
    /\ selected_actions' = <<>>
    /\ idx' = 0
    /\ all_ok' = TRUE
    /\ calls' = <<>>
    /\ cyc' = NoCycle
    /\ UNCHANGED <<config, state_file, last_action_key, last_action_ts, now_ts,
                   log, rc, executed, aux>>

\* time.sleep(cycle_seconds) of lines 232 and 308, then the next iteration of
\* the while-loop, whose assignments overwrite the locals of this one. The
\* clock advances by the sleep and by the time the calls of the cycle took.
Sleep ==
    /\ pc = "sleep"
    /\ cycle < MaxCycles
    /\ \E drift \in DriftChoices : clock' = clock + config.cycle_seconds + drift
    /\ cycle' = cycle + 1
    /\ pc' = "load"
    /\ readings' = NoReadings
    /\ conditions' = NoConditions
    /\ action_key' = NoneStr
    /\ selected_actions' = <<>>
    /\ idx' = 0
    /\ all_ok' = TRUE
    /\ calls' = <<>>
    /\ cyc' = NoCycle
    /\ UNCHANGED <<config, state_file, last_action_key, last_action_ts, now_ts,
                   log, rc, executed, aux>>

\* a slip: the interrupt is caught and the loop goes on
StopSignalSwallowed ==
    /\ pc = "sleep"
    /\ signal = "none"
    /\ signal' = "stop"
    /\ UNCHANGED <<ctlVars, sel, batch, log_table, more>>

\* time.sleep of lines 232 and 308 interrupted by Ctrl+C: KeyboardInterrupt
\* is raised in the sleep and, caught nowhere, ends run_controller
StopSignal ==
    /\ pc = "sleep"
    /\ signal = "none"
    /\ signal' = "stop"
    /\ pc' = "cancelled"
    /\ UNCHANGED <<config, state_file, clock, cycle, last_action_key,
                   last_action_ts, readings, conditions, action_key,
                   selected_actions, now_ts, idx, all_ok, calls, log, rc, cyc,
                   executed, sel, batch, log_table, more>>

-----------------------------------------------------------------------------
(* The specification of the control loop.                                   *)

NoSel == [phase |-> "off"]

\* read_all_points is not running
NoBulk == [pc |-> "off"]

\* the AI tab is not open
NoAi == [pc |-> "off"]

\* _dew_point_c is not being applied
NoDew == [phase |-> "off"]

\* the hourly scheduler is not running
NoSched == [pc |-> "off"]

\* none of the other commands is running
MoreOff == bulk = NoBulk /\ ai = NoAi /\ dewcalc = NoDew /\ sched = NoSched

\* the batch command is not running
NoBatch == [pc |-> "off"]

Init ==
    /\ CtlInit
    /\ sel = NoSel
    /\ batch = NoBatch
    /\ signal = "none"
    /\ log_table = <<>>
    /\ MoreOff

Next ==
    \/ RequireSensors
    \/ LoadStateStep
    \/ ReadIndoorTemp
    \/ ReadIndoorRh
    \/ MissingRequired
    \/ ReadOutdoorTemp
    \/ ReadCo
    \/ ReadCo2
    \/ ClassifyAndSelect
    \/ CooldownSkip
    \/ CooldownRaise
    \/ CooldownPass
    \/ RejectAction
    \/ CallActuator
    \/ Persist
    \/ StoppedInSaveState
    \/ ReturnOnce
    \/ EndCycle
    \/ Sleep
    \/ StopSignal

Spec == Init /\ [][Next]_vars

-----------------------------------------------------------------------------
(* _select_actions on its own: two applications, a and b, that share the    *)
(* combine flag and differ in conditions and action table.                  *)

\* an action table whose four lists are the same
TableSame ==
    [on_air_quality |-> <<Act("force", "fan", "100")>>,
     on_condensation_risk |-> <<Act("force", "fan", "100")>>,
     on_high_rh |-> <<Act("force", "fan", "100")>>,
     on_normal |-> <<Act("force", "fan", "100")>>]

SelectTables == {TableFull, TableMalformed, TableSmall, TableSame}

\* bool(conditions.get(...)) of lines 72-74
ConditionSets ==
    [high_rh : BOOLEAN, condensation_risk : BOOLEAN, poor_air_quality : BOOLEAN]

SelectInputs == [conds : ConditionSets, actions : SelectTables]

NoPlan == [key |-> NoneStr, actions |-> <<>>]

\* the control loop is not running
CtlOff ==
    /\ config = CHOOSE c \in ForeverConfigs : TRUE
    /\ state_file = AbsentState
    /\ clock = StartTime
    /\ pc = "off"
    /\ cycle = 0
    /\ last_action_key = NoneStr
    /\ last_action_ts = [num |-> 0, is_number |-> TRUE]
    /\ readings = NoReadings
    /\ conditions = NoConditions
    /\ action_key = NoneStr
    /\ selected_actions = <<>>
    /\ now_ts = 0
    /\ idx = 0
    /\ all_ok = TRUE
    /\ calls = <<>>
    /\ log = <<>>
    /\ rc = -1
    /\ cyc = NoCycle
    /\ executed = <<>>

SelectInit ==
    /\ CtlOff
    /\ batch = NoBatch
    /\ signal = "none"
    /\ log_table = <<>>
    /\ MoreOff
    /\ \E a \in SelectInputs, b \in SelectInputs, combine \in BOOLEAN :
         sel = [phase |-> "called", combine_actions |-> combine,
                a |-> a, b |-> b, ra |-> NoPlan, rb |-> NoPlan]

\* both calls return
ApplySelect ==
    /\ sel.phase = "called"
    /\ sel' = [sel EXCEPT
                 !.phase = "returned",
                 !.ra = _select_actions(sel.a.conds, sel.a.actions, sel.combine_actions),
                 !.rb = _select_actions(sel.b.conds, sel.b.actions, sel.combine_actions)]
    /\ UNCHANGED <<ctlVars, batch, signal, log_table, more>>

SelectNext == ApplySelect

SelectSpec == SelectInit /\ [][SelectNext]_vars

-----------------------------------------------------------------------------
(* Properties of _select_actions (checked under SelectSpec).                *)

Returned == sel.phase = "returned"

\* the names of the conditions among [condensation_risk, high_rh] that hold,
\* in that order
TrueNames(conds) ==
    (IF conds.condensation_risk THEN <<"condensation_risk">> ELSE <<>>)
    \o (IF conds.high_rh THEN <<"high_rh">> ELSE <<>>)

\* the concatenation of the action lists of the conditions that hold
TrueLists(conds, actions) ==
    (IF conds.condensation_risk
     THEN TableGet(actions, "on_condensation_risk") ELSE <<>>)
    \o (IF conds.high_rh THEN TableGet(actions, "on_high_rh") ELSE <<>>)

AnyCondition(conds) ==
    conds.poor_air_quality \/ conds.condensation_risk \/ conds.high_rh

\* C5: whenever poor_air_quality holds, whatever combine, condensation_risk
\* and high_rh are, the class key is exactly "poor_air_quality" and the
\* action list is the on_air_quality list and nothing else.
C5_AirQualityShortCircuit ==
    (Returned /\ sel.a.conds.poor_air_quality) =>
        /\ sel.ra.key = "poor_air_quality"
        /\ sel.ra.actions = TableGet(sel.a.actions, "on_air_quality")

\* C5 witness: poor air quality together with high RH and condensation risk,
\* in combine mode, with non-empty lists for all three
C5_Witness ==
    /\ Returned
    /\ sel.combine_actions
    /\ sel.a.conds.poor_air_quality
    /\ sel.a.conds.high_rh
    /\ sel.a.conds.condensation_risk
    /\ sel.a.actions = TableFull
    /\ sel.ra.actions = <<Act("force", "fan", "100")>>

\* C6 as stated: without poor_air_quality and for both values of combine,
\* the class key is the "+"-join of every condition that is true and the
\* action list is the concatenation of their lists.
C6_Original ==
    (Returned /\ ~sel.a.conds.poor_air_quality /\ TrueNames(sel.a.conds) # <<>>) =>
        /\ sel.ra.key = Join(TrueNames(sel.a.conds))
        /\ sel.ra.actions = TrueLists(sel.a.conds, sel.a.actions)

\* C6 amended: without poor_air_quality and with at least one of
\* condensation_risk and high_rh true, the class key is the "+"-join of every
\* true condition and the action list the concatenation of their lists when
\* combine is true or only one of the two is true; with combine false and
\* both true, the key is "condensation_risk" and the list is the
\* on_condensation_risk list alone.
C6_JoinedKey ==
    (Returned /\ ~sel.a.conds.poor_air_quality /\ TrueNames(sel.a.conds) # <<>>) =>
        IF sel.combine_actions \/ Len(TrueNames(sel.a.conds)) = 1
        THEN /\ sel.ra.key = Join(TrueNames(sel.a.conds))
             /\ sel.ra.actions = TrueLists(sel.a.conds, sel.a.actions)
        ELSE /\ sel.ra.key = "condensation_risk"
             /\ sel.ra.actions = TableGet(sel.a.actions, "on_condensation_risk")

\* C6 witness: both conditions in combine mode give the joined key and both
\* lists
C6_Witness ==
    /\ Returned
    /\ sel.combine_actions
    /\ ~sel.a.conds.poor_air_quality
    /\ sel.a.conds.condensation_risk
    /\ sel.a.conds.high_rh
    /\ sel.a.actions = TableFull
    /\ sel.ra.key = "condensation_risk+high_rh"
    /\ Len(sel.ra.actions) = 4

\* C7: with combine false and no poor_air_quality, the plan is the list of
\* the highest-precedence true condition (condensation_risk before high_rh)
\* and nothing else, under that condition's name; high_rh alone gives
\* "high_rh" with the on_high_rh list for both values of combine.
C7_NonCombineSelectsOne ==
    /\ (Returned /\ ~sel.combine_actions /\ ~sel.a.conds.poor_air_quality
          /\ sel.a.conds.condensation_risk) =>
            /\ sel.ra.key = "condensation_risk"
            /\ sel.ra.actions = TableGet(sel.a.actions, "on_condensation_risk")
    /\ (Returned /\ ~sel.a.conds.poor_air_quality
          /\ ~sel.a.conds.condensation_risk /\ sel.a.conds.high_rh) =>
            /\ sel.ra.key = "high_rh"
            /\ sel.ra.actions = TableGet(sel.a.actions, "on_high_rh")

\* C7 witness: both conditions true without combine; only the condensation
\* list is selected although the high_rh list is not empty
C7_Witness ==
    /\ Returned
    /\ ~sel.combine_actions
    /\ ~sel.a.conds.poor_air_quality
    /\ sel.a.conds.condensation_risk
    /\ sel.a.conds.high_rh
    /\ sel.a.actions = TableFull
    /\ sel.ra.key = "condensation_risk"
    /\ Len(sel.ra.actions) = 2

\* the lists of the table other than on_normal share no action with it
NormalDistinct(actions) ==
    \A name \in {"on_air_quality", "on_condensation_risk", "on_high_rh"} :
        Range(TableGet(actions, name)) \cap Range(TableGet(actions, "on_normal")) = {}

\* C8: the plan is ("normal", on_normal list) exactly when none of the three
\* conditions is true; when any is true, for both values of combine, the key
\* is not "normal", the plan is a concatenation of lists of the three
\* conditions only, and (in a table whose on_normal actions occur in no other
\* list) it holds no on_normal action.
C8_NormalPlan ==
    Returned =>
        /\ ~AnyCondition(sel.a.conds) =>
             /\ sel.ra.key = "normal"
             /\ sel.ra.actions = TableGet(sel.a.actions, "on_normal")
        /\ AnyCondition(sel.a.conds) =>
             /\ sel.ra.key # "normal"
             /\ \E p, c, h \in BOOLEAN :
                  sel.ra.actions =
                    (IF p THEN TableGet(sel.a.actions, "on_air_quality") ELSE <<>>)
                    \o (IF c THEN TableGet(sel.a.actions, "on_condensation_risk")
                        ELSE <<>>)
                    \o (IF h THEN TableGet(sel.a.actions, "on_high_rh") ELSE <<>>)
             /\ NormalDistinct(sel.a.actions) =>
                  Range(sel.ra.actions)
                    \cap Range(TableGet(sel.a.actions, "on_normal")) = {}

\* C8 witness: only high_rh in combine mode, in a table with a non-empty
\* on_normal list: the plan is the on_high_rh list
C8_Witness ==
    /\ Returned
    /\ sel.combine_actions
    /\ sel.a.conds = [high_rh |-> TRUE, condensation_risk |-> FALSE,
                      poor_air_quality |-> FALSE]
    /\ sel.a.actions = TableFull
    /\ sel.ra.key = "high_rh"
    /\ Len(sel.ra.actions) = 2

\* the conditions that trigger the plan, by the precedence of the selector:
\* poor_air_quality alone; else, without combine, the first true one of
\* condensation_risk and high_rh; else all true ones
Triggering(conds, combine_actions) ==
    IF conds.poor_air_quality THEN {"poor_air_quality"}
    ELSE IF ~combine_actions /\ conds.condensation_risk THEN {"condensation_risk"}
    ELSE Range(TrueNames(conds))

\* C9: for a fixed combine flag the class key is a function of the three
\* booleans alone (the same conditions give the same key under any two action
\* tables), and two condition sets whose plans are triggered by different
\* conditions get different keys, also when their action lists are equal.
C9_KeyIsNominal ==
    Returned =>
        /\ sel.a.conds = sel.b.conds => sel.ra.key = sel.rb.key
        /\ Triggering(sel.a.conds, sel.combine_actions)
             # Triggering(sel.b.conds, sel.combine_actions)
           => sel.ra.key # sel.rb.key

\* C9 witness: high_rh against condensation_risk in a table that gives both
\* the same list: equal action lists, different keys
C9_Witness ==
    /\ Returned
    /\ sel.a.actions = TableSame
    /\ sel.b.actions = TableSame
    /\ sel.a.conds = [high_rh |-> TRUE, condensation_risk |-> FALSE,
                      poor_air_quality |-> FALSE]
    /\ sel.b.conds = [high_rh |-> FALSE, condensation_risk |-> TRUE,
                      poor_air_quality |-> FALSE]
    /\ sel.ra.actions = sel.rb.actions
    /\ sel.ra.actions # <<>>
    /\ sel.ra.key # sel.rb.key

-----------------------------------------------------------------------------
(* Properties of the control loop (checked under Spec).                     *)

\* the calls of the current cycle that carry out an action of the plan
PlanCalls == {i \in 1..Len(calls) : calls[i].in_plan}

\* the cooldown check of the current cycle has been made
Checked == cyc.path \in {"suppressed", "execute"}

\* the current cycle is over: it ended, returned, or was left by an exception
CycleOver == pc \in {"end_cycle", "sleep", "returned", "raised"}

\* C1: in a cycle whose class key equals the persisted last_action_key and
\* whose now - persisted last_action_ts is below cooldown_seconds, the plan is
\* skipped: no action of the plan reaches the actuator and the state file is
\* what it was when the cycle began.
C1_CooldownSuppression ==
    (/\ Checked
     /\ cyc.start_file.kind = "object"
     /\ cyc.start_file.ts_is_number
     /\ action_key = cyc.start_file.last_action_key
     /\ now_ts - cyc.start_file.last_action_ts < config.cooldown_seconds)
    => /\ cyc.path = "suppressed"
       /\ PlanCalls = {}
       /\ state_file = cyc.start_file
       /\ pc # "execute"

\* C1 witness: the second cycle of a run finds the state its first cycle
\* wrote, selects the same non-empty plan inside the window and ends without
\* a call
C1_Witness ==
    /\ cycle = 2
    /\ pc = "sleep"
    /\ cyc.path = "suppressed"
    /\ selected_actions # <<>>
    /\ action_key = state_file.last_action_key
    /\ now_ts - state_file.last_action_ts < config.cooldown_seconds
    /\ PlanCalls = {}

\* C2 as stated: any two cycles that invoke the executor for the same class
\* key are at least cooldown_seconds apart.
C2_SameClassApart ==
    \A i, j \in DOMAIN executed :
        (i < j /\ executed[i][1] = executed[j][1])
            => executed[j][2] - executed[i][2] >= config.cooldown_seconds

\* C3 as stated: after every cycle that takes the execute path the state file
\* holds the plan's class key, the now of the cooldown check and the
\* executor's aggregate result.
C3_PersistAfterExecutePath ==
    (cyc.path = "execute" /\ CycleOver)
        => state_file = SavedState(action_key, now_ts, all_ok)

\* C4: when the cycle finds a required value missing, that step computes no
\* plan, calls nothing, leaves the state file alone and appends one failed
\* auto_evaluate record; with once it returns 1, otherwise it goes to sleep,
\* and the sleep, unless an interrupt ends it, lasts at least cycle_seconds
\* and is followed by a new cycle.
C4_MissingRequiredSensor ==
    /\ [][(pc = "check_required"
             /\ (~readings.indoor_temp_c.has \/ ~readings.indoor_rh.has))
          => /\ action_key' = NoneStr
             /\ selected_actions' = <<>>
             /\ calls' = calls
             /\ PlanCalls = {}
             /\ Len(calls) = 2
             /\ state_file' = state_file
             /\ state_file = cyc.start_file
             /\ Len(log') = Len(log) + 1
             /\ log'[Len(log')].action = "auto_evaluate"
             /\ ~log'[Len(log')].success
             /\ IF config.once
                THEN pc' = "returned" /\ rc' = 1
                ELSE pc' = "sleep" /\ rc' = rc]_vars
    /\ [][(pc = "sleep" /\ cyc.path = "missing" /\ signal' = signal)
          => /\ pc' = "load"
             /\ cycle' = cycle + 1
             /\ clock' >= clock + config.cycle_seconds
             /\ state_file' = state_file
             /\ log' = log]_vars

\* C4 witness: the temperature parsed, the humidity did not, and the loop
\* has started its next cycle after the failed one
C4_Witness ==
    /\ cycle = 2
    /\ pc = "load"
    /\ Len(log) = 1
    /\ log[1].action = "auto_evaluate"
    /\ ~log[1].success
    /\ state_file = AbsentState
    /\ executed = <<>>

\* the log records of the actions of the current plan, one per visited action
ActionRecords == SubSeq(log, Len(log) - (idx - 2), Len(log))

\* the actions of the plan that _execute_actions does not reject
WellFormed == {i \in 1..Len(selected_actions) : ~Rejected(selected_actions[i])}

\* C10 as stated: once _execute_actions is over, every action of the list
\* has been visited (each well-formed one has had its actuator call),
\* whatever happened to earlier ones, and the value it returns is true
\* exactly when no action was rejected or failed.
C10_BestEffortAggregate ==
    (cyc.path = "execute" /\ pc # "execute")
        => /\ Cardinality(PlanCalls) = Cardinality(WellFormed)
           /\ pc # "raised" =>
                /\ idx = Len(selected_actions) + 1
                /\ all_ok <=> \A i \in 1..Len(ActionRecords) :
                                  ActionRecords[i].success

-----------------------------------------------------------------------------
(* Properties of _execute_actions and of the cycle (checked under Spec).    *)

\* an action spec with a point, operation force (or none), and no value
ForceWithoutValue(a) ==
    ~MissingPoint(a) /\ OpOf(a) = "force" /\ a.value = NoneStr

\* C11: when _execute_actions visits a force action without a value it
\* appends one failed auto_action record, makes no actuator call, sets the
\* aggregate to false and goes on to the next action of the plan; the
\* aggregate the cycle persists is false.
C11_ForceWithoutValue ==
    /\ [][(pc = "execute" /\ idx <= Len(selected_actions)
             /\ ForceWithoutValue(selected_actions[idx]))
          => /\ log' = Append(log, LogRecord("auto_action",
                                             selected_actions[idx].point, FALSE,
                                             "Missing value for force.", FALSE))
             /\ calls' = calls
             /\ all_ok' = FALSE
             /\ idx' = idx + 1
             /\ pc' = "execute"
             /\ selected_actions' = selected_actions]_vars
    /\ []((pc = "end_cycle" /\ cyc.path = "execute"
             /\ \E i \in 1..Len(selected_actions) :
                    ForceWithoutValue(selected_actions[i]))
          => ~state_file.last_actions_ok)

\* C11 witness: a plan whose second action is a force without a value has
\* been run to its end; the action after it reached the actuator and
\* succeeded, and the aggregate is false
C11_Witness ==
    /\ pc = "end_cycle"
    /\ cyc.path = "execute"
    /\ Len(selected_actions) = 4
    /\ ForceWithoutValue(selected_actions[2])
    /\ Cardinality(PlanCalls) = 1
    /\ log[Len(log)].success
    /\ ~state_file.last_actions_ok

\* the actuator calls of the current cycle made for actions of the plan, in
\* the order they were made, as <<operation, point, value>>
PlanCallSeq ==
    LET made == SelectSeq(calls, LAMBDA c : c.in_plan)
    IN  [i \in 1..Len(made) |-> <<made[i].op, made[i].point, made[i].value>>]

\* a read, an unforce or a force with a value, on a point
WellFormedAction(a) ==
    /\ a.point \notin {NoneStr, ""}
    /\ \/ OpOf(a) \in {"read", "unforce"}
       \/ OpOf(a) = "force" /\ a.value # NoneStr

\* one <<operation, point, value>> for each well-formed action of a list, in
\* list order
RECURSIVE CallsOf(_)
CallsOf(acts) ==
    IF acts = <<>> THEN <<>>
    ELSE (IF WellFormedAction(Head(acts))
          THEN <<<<OpOf(Head(acts)), Head(acts).point,
                   IF OpOf(Head(acts)) = "force" THEN Head(acts).value
                   ELSE NoneStr>>>>
          ELSE <<>>)
         \o CallsOf(Tail(acts))

\* the actions of the plan the executor has reached so far
Reached ==
    SubSeq(selected_actions, 1, IF pc = "raised" THEN idx ELSE idx - 1)

\* C12: at every moment of a cycle on the execute path the actuator calls
\* made for the plan are, in order, exactly one call for each well-formed
\* action the executor has reached (none twice, none out of order), and when
\* the executor stands at action i the log holds, after the evaluation
\* record, exactly one record for each of the actions 1..i-1, in order.
C12_OrderedSingleShot ==
    cyc.path = "execute" =>
        /\ PlanCallSeq = CallsOf(Reached)
        /\ pc = "execute" =>
             /\ Len(log) >= idx
             /\ log[Len(log) - (idx - 1)].message = "Evaluation complete."
             /\ \A k \in 1..(idx - 1) :
                  /\ ActionRecords[k].action # "auto_evaluate"
                  /\ ActionRecords[k].point = selected_actions[k].point

\* C12 witness: a plan of four well-formed actions was carried out in four
\* calls although its first call failed
C12_Witness ==
    /\ pc = "end_cycle"
    /\ cyc.path = "execute"
    /\ Len(selected_actions) = 4
    /\ Len(PlanCallSeq) = 4
    /\ PlanCallSeq[1] = <<"force", "valve", "30">>
    /\ PlanCallSeq[4] = <<"force", "fan", "80">>
    /\ ~log[Len(log) - 3].success
    /\ log[Len(log)].success

\* C13 as stated: when a cycle on the execute path is over, however its
\* actuator calls ended (success, a failed result, an error raised), the log
\* holds one record for every action of the plan after the evaluation
\* record, every well-formed action of the plan has had its call, and the
\* state file holds the state of this cycle.
C13_NoSingleActionBreaksPlan ==
    (cyc.path = "execute" /\ CycleOver) =>
        /\ Len(log) > Len(selected_actions)
        /\ log[Len(log) - Len(selected_actions)].message = "Evaluation complete."
        /\ \A k \in 1..Len(selected_actions) :
             log[Len(log) - Len(selected_actions) + k].point
                 = selected_actions[k].point
        /\ PlanCallSeq = CallsOf(selected_actions)
        /\ state_file.kind = "object"
        /\ state_file.last_action_key = action_key
        /\ state_file.last_action_ts = now_ts

CorruptStart ==
    \/ cyc.start_file.kind \in {"absent", "invalid_json", "non_object"}
    \/ ~cyc.start_file.ts_is_number

\* C15 as stated: whatever the state file holds (nothing, no JSON, JSON that
\* is no object, an object with a last_action_ts that is no number), the
\* cycle is not ended by an error of reading or using the state, and the
\* cooldown suppresses nothing.
C15_StoreCorruptionNotFatal ==
    (cyc.path # "none" /\ CorruptStart) =>
        cyc.path \notin {"state_error", "suppressed"}

\* C16 as stated: at every point of a cycle, also when the process was
\* stopped inside _save_state, the state file holds either all of the state
\* the cycle began with or all of the state the cycle saves.
C16_AtomicStateWrite ==
    cyc.path # "none" =>
        \/ state_file = cyc.start_file
        \/ state_file = SavedState(action_key, now_ts, all_ok)

\* the place of each step in the order of a cycle
Rank(p) ==
    CASE p = "start"          -> 0
      [] p = "load"           -> 1
      [] p = "read_temp"      -> 2
      [] p = "read_rh"        -> 3
      [] p = "check_required" -> 4
      [] p = "read_co"        -> 5
      [] p = "read_co2"       -> 6
      [] p = "classify"       -> 7
      [] p = "cooldown"       -> 8
      [] p = "execute"        -> 9
      [] p = "end_cycle"      -> 10
      [] p = "sleep"          -> 11
      [] OTHER                -> 12

\* C17: in a run that loops forever the steps of a cycle come in the order
\* load, required reads, optional reads, classify and select, cooldown
\* check, execute, persist; the state file is written only by the persist
\* step, after the last action of the plan; an actuator call is made only
\* between the load and the end of the same cycle; and a cycle begins (and
\* with it the next load and the next calls) only from the sleep, after its
\* predecessor has persisted its state, or logged its suppression or its
\* missing reading, and at least cycle_seconds have passed.
C17_CycleSequencing ==
    /\ [][(~config.once /\ cycle' = cycle /\ pc' # pc) => Rank(pc') > Rank(pc)]_vars
    /\ [][(~config.once /\ state_file' # state_file)
            => pc = "execute" /\ idx > Len(selected_actions)]_vars
    /\ [][(~config.once /\ Len(calls') > Len(calls))
            => /\ cycle' = cycle
               /\ cyc.path \in {"running", "execute"}
               /\ Rank(pc) \in 2..9]_vars
    /\ [][(~config.once /\ cyc'.path # "none" /\ cyc.path = "none")
            => pc = "load" /\ calls = <<>>]_vars
    /\ [][(~config.once /\ cycle' # cycle)
            => /\ pc = "sleep" /\ pc' = "load"
               /\ cycle' = cycle + 1
               /\ clock' >= clock + config.cycle_seconds
               /\ cyc.path \in {"execute", "suppressed", "missing"}
               /\ cyc.path = "execute"
                    => state_file = SavedState(action_key, now_ts, all_ok)
               /\ cyc.path = "suppressed"
                    => log[Len(log)].message = "Cooldown active; skipping actions."
               /\ cyc.path = "missing"
                    => log[Len(log)].message
                         = "Failed to parse indoor sensor values."
               /\ state_file' = state_file
               /\ calls' = <<>>]_vars

\* C17 witness: the second cycle has loaded the state that the first cycle
\* persisted, after a sleep of at least cycle_seconds, and stands before
\* its own first call
C17_Witness ==
    /\ ~config.once
    /\ cycle = 2
    /\ pc = "read_temp"
    /\ calls = <<>>
    /\ Len(executed) = 1
    /\ state_file = SavedState(last_action_key, StartTime, TRUE)
    /\ last_action_ts.num = StartTime
    /\ clock >= StartTime + config.cycle_seconds

\* C18 as stated: a run with once ends after one cycle with return value 0
\* when both required readings parsed (whatever became of the plan and its
\* actions) and 1 when one is missing; a run without once never ends on
\* its own, whatever the actuator calls do.
C18_OperatingModes ==
    /\ config.once => cycle = 1 /\ pc # "sleep"
    /\ (config.once /\ pc \in {"returned", "raised"}
          /\ readings.indoor_temp_c.has /\ readings.indoor_rh.has)
         => pc = "returned" /\ rc = 0
    /\ (config.once /\ pc \in {"returned", "raised"} /\ cyc.path = "missing")
         => pc = "returned" /\ rc = 1
    /\ (~config.once /\ config.required_mapped)
         => pc \notin {"returned", "raised"} /\ rc = -1

\* an action of the current plan is malformed: no point, a force without a
\* value, or an operation that is none of force, unforce and read
MalformedInPlan ==
    \E i \in 1..Len(selected_actions) : ~WellFormedAction(selected_actions[i])

\* C19 as stated: a run with once whose plan held a malformed action spec
\* returns a non-zero status; a run without once is not ended by a
\* configuration that lacks a required sensor mapping or holds a malformed
\* action spec.
C19_ConfigErrorsConfined ==
    /\ (config.once /\ pc = "returned" /\ cyc.path = "execute" /\ MalformedInPlan)
         => rc # 0
    /\ (~config.once /\ ~config.required_mapped) => pc # "raised"
    /\ (~config.once /\ cyc.path = "execute" /\ MalformedInPlan
          /\ idx > Len(selected_actions))
         => pc \in {"execute", "end_cycle", "sleep"}

-----------------------------------------------------------------------------
(* The batch command (main.py, 392-453): every operation of the batch file  *)
(* is validated, then attempted up to --retries times with a growing        *)
(* backoff.                                                                 *)

\* --retries (default 3) and --backoff-seconds (default 2.0)
RetriesChoices == {-1, 0, 1, 2, 3}
BackoffSecondsChoices == {2}

\* operation lists a batch file can hold (load_batch_config)
BatchFiles ==
    {<<Act("force", "valve", "30"), Act("read", "valve", NoneStr)>>,
     <<Act("force", "fan", NoneStr), Act("unforce", "damper", NoneStr)>>,
     <<Act("toggle", "fan", "1"), Act(NoneStr, "fan", "80")>>,
     <<Act("READ", NoneStr, NoneStr)>>}

\* lines 398-409: the operations the batch command skips with exit code 1
BatchInvalid(op) ==
    \/ op.point = NoneStr \/ op.point = ""
    \/ OpOf(op) \notin {"force", "unforce", "read"}
    \/ OpOf(op) = "force" /\ op.value = NoneStr

\* line 449: backoff = args.backoff_seconds * attempt
Backoff(backoff_seconds, attempt) == backoff_seconds * attempt

\* what the batch command does, in order: actuator calls, log records
\* (log_action, with their "attempt") and sleeps
Event(kind, op, attempt, success, seconds) ==
    [kind |-> kind, op |-> op, attempt |-> attempt, success |-> success,
     seconds |-> seconds]

BatchInit ==
    /\ CtlOff
    /\ sel = NoSel
    /\ signal = "none"
    /\ log_table = <<>>
    /\ MoreOff
    /\ \E n \in RetriesChoices, b \in BackoffSecondsChoices, d \in BOOLEAN,
          ops \in BatchFiles :
         batch = [pc |-> "loop", retries |-> n, backoff_seconds |-> b,
                  dry_run |-> d, operations |-> ops, i |-> 1, attempt |-> 1,
                  trace |-> <<>>, exit_code |-> 0]

\* variant of BatchRejectOp that skips the operation and keeps the exit code
BatchRejectOpKeepsStatus ==
    /\ batch.pc = "loop"
    /\ batch.i <= Len(batch.operations)
    /\ BatchInvalid(batch.operations[batch.i])
    /\ batch' = [batch EXCEPT !.i = batch.i + 1]
    /\ UNCHANGED <<ctlVars, sel, signal, log_table, more>>

\* lines 398-409: an invalid operation is reported and skipped
BatchRejectOp ==
    /\ batch.pc = "loop"
    /\ batch.i <= Len(batch.operations)
    /\ BatchInvalid(batch.operations[batch.i])
    /\ batch' = [batch EXCEPT !.exit_code = 1, !.i = batch.i + 1]
    /\ UNCHANGED <<ctlVars, sel, signal, log_table, more>>

\* variant of BatchNoAttempt in which an empty range of attempts leaves the
\* exit code alone
BatchNoAttemptKeepsStatus ==
    /\ batch.pc = "loop"
    /\ batch.i <= Len(batch.operations)
    /\ ~BatchInvalid(batch.operations[batch.i])
    /\ batch.retries < 1
    /\ batch' = [batch EXCEPT !.i = batch.i + 1]
    /\ UNCHANGED <<ctlVars, sel, signal, log_table, more>>

\* lines 411 and 451-452: range(1, retries + 1) is empty, the else clause of
\* the for-loop sets the exit code
BatchNoAttempt ==
    /\ batch.pc = "loop"
    /\ batch.i <= Len(batch.operations)
    /\ ~BatchInvalid(batch.operations[batch.i])
    /\ batch.retries < 1
    /\ batch' = [batch EXCEPT !.exit_code = 1, !.i = batch.i + 1]
    /\ UNCHANGED <<ctlVars, sel, signal, log_table, more>>

\* lines 411-452: one pass of the for-loop over the attempts: the call, its
\* log record, then break (success), sleep and next attempt (failure with
\* attempts left) or the else clause (last attempt failed); an exception of
\* the call leaves main
BatchAttempt ==
    /\ batch.pc = "loop"
    /\ batch.i <= Len(batch.operations)
    /\ ~BatchInvalid(batch.operations[batch.i])
    /\ batch.attempt <= batch.retries
    /\ \E out \in ActuatorOutcomes :
         LET i      == batch.i
             k      == batch.attempt
             called == Append(batch.trace, Event("call", i, k, FALSE, 0))
             logged == Append(called, Event("log", i, k, out = "ok", 0))
         IN  batch' =
               IF out = "raise"
               THEN [batch EXCEPT !.pc = "raised", !.trace = called]
               ELSE IF out = "ok"
               THEN [batch EXCEPT !.trace = logged, !.i = i + 1, !.attempt = 1]
               ELSE IF k < batch.retries
               THEN [batch EXCEPT
                       !.trace = Append(logged,
                           Event("sleep", i, k, FALSE,
                                 Backoff(batch.backoff_seconds, k))),
                       !.attempt = k + 1]
               ELSE [batch EXCEPT !.trace = logged, !.exit_code = 1,
                                  !.i = i + 1, !.attempt = 1]
    /\ UNCHANGED <<ctlVars, sel, signal, log_table, more>>

\* line 453: return exit_code
BatchReturn ==
    /\ batch.pc = "loop"
    /\ batch.i > Len(batch.operations)
    /\ batch' = [batch EXCEPT !.pc = "done"]
    /\ UNCHANGED <<ctlVars, sel, signal, log_table, more>>

BatchNext ==
    \/ BatchRejectOp
    \/ BatchNoAttempt
    \/ BatchAttempt
    \/ BatchReturn

BatchSpec == BatchInit /\ [][BatchNext]_vars

-----------------------------------------------------------------------------
(* Properties of the batch command (checked under BatchSpec).               *)

\* the positions of the trace that hold an event of this kind for operation i
EventsOf(kind, i) ==
    {p \in 1..Len(batch.trace) :
        batch.trace[p].kind = kind /\ batch.trace[p].op = i}

\* C20 as stated: for every well-formed operation and retries >= 1 there
\* are at most retries calls, none after the first success; every attempt
\* has one log record, and the records carry the attempt numbers 1, 2, ...
\* in order; a failed attempt k that is not the last is followed by a sleep
\* of backoff_seconds * k and then by attempt k + 1; there is no sleep after
\* the last failed attempt or after a success.
C20_RetryableBatch ==
    LET tr == batch.trace
    IN  \A i \in 1..Len(batch.operations) :
          (batch.retries >= 1 /\ ~BatchInvalid(batch.operations[i])) =>
            /\ Cardinality(EventsOf("call", i)) <= batch.retries
            /\ Cardinality(EventsOf("log", i)) = Cardinality(EventsOf("call", i))
            /\ \A p \in EventsOf("call", i) :
                 /\ tr[p].attempt = Cardinality({q \in EventsOf("call", i) : q <= p})
                 /\ p < Len(tr)
                 /\ tr[p + 1].kind = "log"
                 /\ tr[p + 1].op = i
                 /\ tr[p + 1].attempt = tr[p].attempt
                 /\ \A q \in EventsOf("log", i) : (q < p) => ~tr[q].success
            /\ \A p \in EventsOf("log", i) :
                 IF ~tr[p].success /\ tr[p].attempt < batch.retries
                 THEN /\ p < Len(tr)
                      /\ tr[p + 1] = Event("sleep", i, tr[p].attempt, FALSE,
                                           batch.backoff_seconds * tr[p].attempt)
                      /\ (p + 2 <= Len(tr)) =>
                           tr[p + 2] = Event("call", i, tr[p].attempt + 1, FALSE, 0)
                 ELSE (p < Len(tr)) => tr[p + 1].kind # "sleep"
            /\ \A p \in EventsOf("sleep", i) :
                 p > 1 /\ tr[p - 1].kind = "log" /\ ~tr[p - 1].success

-----------------------------------------------------------------------------
(* Further properties of the control loop (checked under Spec).             *)

-----------------------------------------------------------------------------
(* The structured action log logs/bravida_actions.jsonl on its own: the    *)
(* commands of the program append to it with log_action, and the log        *)
(* viewer of gui.py shows it and can clear it.                              *)

\* records in the log file that are explored
MaxLogLen == 3

\* logs = logs[-20:] (gui.py line 460): the rows the viewer shows
ShownRows == 20

\* payloads the commands of the program hand to log_action: a force of
\* main.py, an evaluation and a rejected action of the controller
LogPayloads ==
    {LogRecord("force", "valve", TRUE, NoneStr, FALSE),
     LogRecord("auto_evaluate", NoneStr, TRUE,
               "Cooldown active; skipping actions.", FALSE),
     LogRecord("auto_action", "fan", FALSE, "Missing value for force.", FALSE)}

\* the last n elements of a sequence (s[-n:])
LastRows(s, n) == IF Len(s) <= n THEN s ELSE SubSeq(s, Len(s) - n + 1, Len(s))

\* LogViewerWidget.__init__: the viewer is opened on a log that does not
\* exist yet (_load_logs returns at once)
LogInit ==
    /\ CtlOff
    /\ sel = NoSel
    /\ batch = NoBatch
    /\ signal = "none"
    /\ log_table = <<>>
    /\ MoreOff

\* log_action: the file is opened in append mode and one line is written
log_action ==
    /\ Len(log) < MaxLogLen
    /\ \E payload \in LogPayloads : log' = Append(log, payload)
    /\ UNCHANGED <<config, state_file, clock, pc, cycle, last_action_key,
                   last_action_ts, readings, conditions, action_key,
                   selected_actions, now_ts, idx, all_ok, calls, rc, cyc,
                   executed, aux>>

\* the table after _load_logs: unchanged when the file does not exist (the
\* empty log stands for the absent file), its last 20 records otherwise
Loaded(file, table) == IF file = <<>> THEN table ELSE LastRows(file, ShownRows)

\* _load_logs, on the Refresh button or the 2-second timer
_load_logs ==
    /\ log_table' = Loaded(log, log_table)
    /\ UNCHANGED <<ctlVars, sel, batch, signal, more>>

\* _clear_logs after the answer Yes: the file is unlinked when it exists,
\* then _load_logs is called (with the answer No nothing happens)
_clear_logs ==
    /\ log' = <<>>
    /\ log_table' = Loaded(<<>>, log_table)
    /\ UNCHANGED <<config, state_file, clock, pc, cycle, last_action_key,
                   last_action_ts, readings, conditions, action_key,
                   selected_actions, now_ts, idx, all_ok, calls, rc, cyc,
                   executed, sel, batch, signal, more>>

LogNext ==
    \/ log_action
    \/ _load_logs
    \/ _clear_logs

LogSpec == LogInit /\ [][LogNext]_vars

-----------------------------------------------------------------------------
(* read_all_points of bulk_reader.py: one future per defined point, run by  *)
(* the worker threads of a ThreadPoolExecutor, collected by the caller.      *)

\* three of the default point definitions (lines 62-99), in the order of the
\* dict: a temperature and two humidities
BulkPointSeq == <<"360.005-RT40", "360.005-RH40", "360.005-SB40">>

BulkPoints == Range(BulkPointSeq)

\* self.point_definitions
PointDefinitions ==
    [p \in BulkPoints |->
        CASE p = "360.005-RT40" ->
               [name |-> "Room Temperature", unit |-> "C",
                category |-> "temperature"]
          [] p = "360.005-RH40" ->
               [name |-> "Room Humidity", unit |-> "%", category |-> "humidity"]
          [] p = "360.005-SB40" ->
               [name |-> "Supply Air Humidity", unit |-> "%",
                category |-> "humidity"]]

\* the value a successful read of the point shows
ReadValue ==
    [p \in BulkPoints |->
        CASE p = "360.005-RT40" -> 21
          [] p = "360.005-RH40" -> 40
          [] p = "360.005-SB40" -> 50]

\* max_workers: one worker, two, and the default of five
MaxWorkersChoices == {1, 2, 5}

\* HVACPoint
HVACPoint(name, value, unit, category, success, error) ==
    [name |-> name, value |-> value, unit |-> unit, category |-> category,
     success |-> success, error |-> error]

\* no result yet
NoEntry == [success |-> FALSE, error |-> "no entry"]

\* what _read_single_point returns for a read that succeeded ("ok"), that
\* came back with success false ("fail") or that raised ("raise"): lines
\* 139-147 and 149-153
EntryOf(point_name, out) ==
    LET definition == PointDefinitions[point_name]
    IN  CASE out = "ok" ->
               HVACPoint(definition.name, Some(ReadValue[point_name]),
                         definition.unit, definition.category, TRUE, NoneStr)
          [] out = "fail" ->
               HVACPoint(definition.name, NoValue, definition.unit,
                         definition.category, FALSE, "message")
          [] out = "raise" ->
               HVACPoint(point_name, NoValue, NoneStr, NoneStr, FALSE,
                         "Exception")

RECURSIVE SumOf(_, _)
SumOf(f, S) ==
    IF S = {} THEN 0
    ELSE LET x == CHOOSE y \in S : TRUE IN f[x].value.v + SumOf(f, S \ {x})

\* _calculate_averages for one category: None without a successful value,
\* sum / len otherwise (the values of the model divide without remainder)
AverageOf(points, category) ==
    LET S == {p \in DOMAIN points :
                 /\ points[p].success
                 /\ points[p].value.has
                 /\ points[p].category = category}
    IN  IF S = {} THEN NoValue
        ELSE Some(SumOf(points, S) \div Cardinality(S))

\* HVACSystemState
HVACSystemState(points) ==
    [points |-> points,
     temperature_avg |-> AverageOf(points, "temperature"),
     humidity_avg |-> AverageOf(points, "humidity"),
     pressure_avg |-> AverageOf(points, "pressure")]

EmptyDict == [p \in {} |-> NoEntry]

\* read_all_points is called (lines 101-106)
BulkInit ==
    /\ CtlOff
    /\ sel = NoSel
    /\ batch = NoBatch
    /\ signal = "none"
    /\ log_table = <<>>
    /\ ai = NoAi /\ dewcalc = NoDew /\ sched = NoSched
    /\ \E n \in MaxWorkersChoices :
         bulk = [pc |-> "submit", max_workers |-> n, submitted |-> 0,
                 future |-> [p \in BulkPoints |-> "none"],
                 read |-> [p \in BulkPoints |-> "none"],
                 result |-> [p \in BulkPoints |-> NoEntry],
                 points |-> EmptyDict,
                 system_state |-> HVACSystemState(EmptyDict)]

\* lines 109-112: the next future is submitted; after the last one the
\* caller enters the as_completed loop
SubmitFuture ==
    /\ bulk.pc = "submit"
    /\ LET p == BulkPointSeq[bulk.submitted + 1]
       IN  bulk' = [bulk EXCEPT
                      !.future[p] = "queued",
                      !.submitted = @ + 1,
                      !.pc = IF bulk.submitted + 1 = Len(BulkPointSeq)
                             THEN "collect" ELSE "submit"]
    /\ UNCHANGED notBulk

\* a worker thread of the pool (line 108) takes the oldest queued future;
\* at most max_workers run at a time
WorkerStart ==
    /\ \E k \in 1..Len(BulkPointSeq) :
         /\ bulk.future[BulkPointSeq[k]] = "queued"
         /\ \A h \in 1..(k - 1) : bulk.future[BulkPointSeq[h]] # "queued"
         /\ Cardinality({p \in BulkPoints : bulk.future[p] = "running"})
              < bulk.max_workers
         /\ bulk' = [bulk EXCEPT !.future[BulkPointSeq[k]] = "running"]
    /\ UNCHANGED notBulk

\* _read_single_point (lines 128-153) in a worker thread: the read succeeds,
\* fails or raises, and the future is done with the HVACPoint returned
_read_single_point ==
    /\ \E p \in BulkPoints, out \in ActuatorOutcomes :
         /\ bulk.future[p] = "running"
         /\ bulk' = [bulk EXCEPT !.future[p] = "done",
                                 !.read[p] = out,
                                 !.result[p] = EntryOf(p, out)]
    /\ UNCHANGED notBulk

\* the dict `points` with the entry of one more point
WithEntry(points, p, e) ==
    [q \in DOMAIN points \cup {p} |-> IF q = p THEN e ELSE points[q]]

\* a slip: the loop is left at the first future whose read did not succeed
CollectFutureStopsOnFailure ==
    /\ bulk.pc = "collect"
    /\ \E p \in BulkPoints :
         /\ bulk.future[p] = "done"
         /\ p \notin DOMAIN bulk.points
         /\ IF bulk.result[p].success
            THEN bulk' = [bulk EXCEPT
                            !.points = WithEntry(bulk.points, p, bulk.result[p])]
            ELSE bulk' = [bulk EXCEPT
                            !.pc = "returned",
                            !.system_state = HVACSystemState(bulk.points)]
    /\ UNCHANGED notBulk

\* lines 114-122: as_completed yields a future that is done, and its result
\* becomes the entry of its point
CollectFuture ==
    /\ bulk.pc = "collect"
    /\ \E p \in BulkPoints :
         /\ bulk.future[p] = "done"
         /\ p \notin DOMAIN bulk.points
         /\ bulk' = [bulk EXCEPT
                       !.points = WithEntry(bulk.points, p, bulk.result[p])]
    /\ UNCHANGED notBulk

\* lines 124-126: every future has been yielded; the averages are computed
\* and the state is returned
ReturnSystemState ==
    /\ bulk.pc = "collect"
    /\ DOMAIN bulk.points = BulkPoints
    /\ bulk' = [bulk EXCEPT !.pc = "returned",
                            !.system_state = HVACSystemState(bulk.points)]
    /\ UNCHANGED notBulk

BulkNext ==
    \/ SubmitFuture
    \/ WorkerStart
    \/ _read_single_point
    \/ CollectFuture
    \/ ReturnSystemState

\* the threads of the pool and the caller are scheduled as long as one of
\* them can take a step
BulkSpec == BulkInit /\ [][BulkNext]_vars /\ WF_vars(BulkNext)

-----------------------------------------------------------------------------
(* The AI analysis tab of gui.py (AIAnalysisWidget) with the analyzer of    *)
(* hvac_ai_analyzer.py: a scanned state is analysed, the recommendations    *)
(* fill a table, and Auto-Adjust sends the rows of the table to the         *)
(* actuator.                                                                *)

\* the phrases _parse_recommendations looks for in analysis.lower()
Phrases == {"increase cooling", "increase heating", "increase ventilation"}

\* a response of the generative model, as the set of these phrases its text
\* contains; the text "AI Analysis Error: ..." of a failed request contains
\* none
Responses == SUBSET Phrases

\* the averages of the scanned HVACSystemState
ScannedStates ==
    [temperature_avg : {NoValue, Some(21), Some(24)},
     humidity_avg : {NoValue, Some(45), Some(70)}]

\* AIRecommendation, as far as the table and Auto-Adjust use it
AIRecommendation(action, point, value) ==
    [action |-> action, point |-> point, value |-> value]

\* _generate_basic_recommendations (lines 208-238)
_generate_basic_recommendations(state) ==
    (IF state.temperature_avg.has /\ state.temperature_avg.v > 23
     THEN <<AIRecommendation("force", "360.005-JP40_Pos", "50")>> ELSE <<>>)
    \o
    (IF state.humidity_avg.has /\ state.humidity_avg.v > 65
     THEN <<AIRecommendation("force", "360.005-JV40_Pos", "75")>> ELSE <<>>)

\* _parse_recommendations (lines 240-284)
_parse_recommendations(analysis, state) ==
    (IF "increase cooling" \in analysis
     THEN <<AIRecommendation("force", "360.005-JP40_Pos", "50")>> ELSE <<>>)
    \o
    (IF "increase heating" \in analysis
     THEN <<AIRecommendation("force", "360.005-JV50_Pos", "50")>> ELSE <<>>)
    \o
    (IF "increase ventilation" \in analysis
     THEN <<AIRecommendation("force", "360.005-JV40_Pos", "75")>> ELSE <<>>)

\* analyze_system_state (lines 74-85); response is what _get_ai_analysis
\* returns when there is a client
analyze_system_state(has_client, response, state) ==
    IF ~has_client
    THEN [analysis |-> [source |-> "rules", phrases |-> {}],
          recommendations |-> _generate_basic_recommendations(state)]
    ELSE [analysis |-> [source |-> "model", phrases |-> response],
          recommendations |-> _parse_recommendations(response, state)]

\* _display_recommendations (lines 751-775): action, point and value columns
TableRows(recommendations) ==
    [k \in 1..Len(recommendations) |->
        [action |-> recommendations[k].action,
         point |-> recommendations[k].point,
         value |-> IF recommendations[k].value = NoneStr THEN "-"
                   ELSE recommendations[k].value]]

\* the actuator call Auto-Adjust makes for a row (lines 725-728)
CommandOf(row) ==
    IF row.action = "force" THEN <<"force", row.point, row.value>>
    ELSE <<"unforce", row.point, NoneStr>>

CommandsOf(rows) == [k \in 1..Len(rows) |-> CommandOf(rows[k])]

\* the tab after _on_scan_clicked; the analyzer is the one the widget builds,
\* HVACAIAnalyzer() without an API key (gui.py line 526, client None), or one
\* built with the key of a backend (hvac_ai_analyzer.py lines 43-72)
AiInit ==
    /\ CtlOff
    /\ sel = NoSel
    /\ batch = NoBatch
    /\ signal = "none"
    /\ log_table = <<>>
    /\ bulk = NoBulk /\ dewcalc = NoDew /\ sched = NoSched
    /\ \E has_client \in BOOLEAN, state \in ScannedStates :
         ai = [pc |-> "scanned", has_client |-> has_client,
               current_state |-> state,
               analysis |-> [source |-> "none", phrases |-> {}],
               recommendations_table |-> <<>>,
               history |-> <<>>,
               commands |-> <<>>, applied |-> 0, failed |-> 0]

\* _on_analyze_clicked (lines 639-673)
_on_analyze_clicked ==
    /\ ai.pc \in {"scanned", "analyzed"}
    /\ \E response \in Responses :
         LET r == analyze_system_state(ai.has_client, response,
                                       ai.current_state)
         IN  ai' = [ai EXCEPT
                      !.pc = "analyzed",
                      !.analysis = r.analysis,
                      !.recommendations_table = TableRows(r.recommendations),
                      !.history = <<r.analysis, r.recommendations>>]
    /\ UNCHANGED notAi

\* _on_auto_adjust_clicked (lines 675-749) with the answer Yes: every row of
\* the table is sent to the actuator, whose call succeeds, fails or raises
_on_auto_adjust_clicked ==
    /\ ai.pc = "analyzed"
    /\ Len(ai.recommendations_table) > 0
    /\ \E outs \in [1..Len(ai.recommendations_table) -> ActuatorOutcomes] :
         ai' = [ai EXCEPT
                  !.pc = "adjusted",
                  !.commands = CommandsOf(ai.recommendations_table),
                  !.applied = Cardinality({k \in DOMAIN outs : outs[k] = "ok"}),
                  !.failed = Cardinality({k \in DOMAIN outs : outs[k] # "ok"})]
    /\ UNCHANGED notAi

AiNext ==
    \/ _on_analyze_clicked
    \/ _on_auto_adjust_clicked

AiSpec == AiInit /\ [][AiNext]_vars

-----------------------------------------------------------------------------
(* _dew_point_c on its own: one application to a temperature and a         *)
(* relative humidity.                                                       *)

\* temperatures in hundredths of a degree: -40 C to 60 C in steps of 5 C,
\* where hundredths resolve the result, and -243.12 C, where b + temp_c is
\* zero
DewTemps == {-24312} \cup {500 * k : k \in -8..12}

\* relative humidities in percent, with values at and below zero
DewRhs == {-5, 0, 1, 10, 30, 50, 60, 65, 90, 99, 100}

\* _dew_point_c is called
DewInit ==
    /\ CtlOff
    /\ sel = NoSel
    /\ batch = NoBatch
    /\ signal = "none"
    /\ log_table = <<>>
    /\ bulk = NoBulk /\ ai = NoAi /\ sched = NoSched
    /\ \E t \in DewTemps, rh \in DewRhs :
         dewcalc = [phase |-> "called", temp_c |-> t, rh_percent |-> rh,
                    raised |-> FALSE, result |-> 0]

\* lines 40-44: the function returns or raises ZeroDivisionError
ApplyDewPoint ==
    /\ dewcalc.phase = "called"
    /\ dewcalc' =
         IF DewPointRaises(dewcalc.temp_c, dewcalc.rh_percent)
         THEN [dewcalc EXCEPT !.phase = "returned", !.raised = TRUE]
         ELSE [dewcalc EXCEPT
                 !.phase = "returned",
                 !.result = _dew_point_c(dewcalc.temp_c, dewcalc.rh_percent)]
    /\ UNCHANGED notDew

DewNext == ApplyDewPoint

DewSpec == DewInit /\ [][DewNext]_vars

-----------------------------------------------------------------------------
(* run_hourly_scheduler (scheduler.py): the loop of hourly cycles, each of  *)
(* which opens a client, refreshes the session, reads all points and        *)
(* appends one record to the readings file.                                 *)

\* cycles of the scheduler's while-loop that are explored
MaxSchedCycles == 3
\* KeyboardInterrupts delivered to one run
MaxInterrupts == 2

\* what a call into Playwright, the bulk reader or the file system does
StepOutcomes == {"ok", "raise"}

\* what read_all_points returned, as far as the record shows it
SchedReadings == {"all_read", "some_failed"}

\* the positions at which the scheduler's own client is open (inside the
\* with-block of lines 54-104)
ClientOpen == {"refresh", "read", "write", "exit", "exit_exc"}

SchedInit ==
    /\ CtlOff
    /\ sel = NoSel
    /\ batch = NoBatch
    /\ signal = "none"
    /\ log_table = <<>>
    /\ bulk = NoBulk /\ ai = NoAi /\ dewcalc = NoDew
    /\ sched = [pc |-> "top", cycle_count |-> 0, output_file |-> <<>>,
                reading |-> NoneStr, appended |-> 0, failed |-> FALSE,
                interrupts |-> 0, swallowed |-> 0, sleeps |-> 0, rc |-> -1]

\* lines 46-49: the loop begins a cycle
StartCycle ==
    /\ sched.pc = "top"
    /\ sched.cycle_count < MaxSchedCycles
    /\ sched' = [sched EXCEPT !.pc = "enter",
                              !.cycle_count = sched.cycle_count + 1,
                              !.reading = NoneStr,
                              !.appended = 0,
                              !.failed = FALSE]
    /\ UNCHANGED notSched

\* lines 106-108: the handler of the inner try logs the error; the loop goes
\* on to the sleep of line 112
CycleError(s) == [s EXCEPT !.pc = "sleep", !.failed = TRUE]

\* lines 54-60: BravidaClient(...).__enter__ (bravida_client.py, 58-73);
\* when it raises the with-block is not entered and __exit__ is not called
EnterClient ==
    /\ sched.pc = "enter"
    /\ \E out \in StepOutcomes :
         sched' = IF out = "ok" THEN [sched EXCEPT !.pc = "refresh"]
                  ELSE CycleError(sched)
    /\ UNCHANGED notSched

\* lines 61-65: the page check and page.goto; an exception leaves the
\* with-block through __exit__
RefreshSession ==
    /\ sched.pc = "refresh"
    /\ \E out \in StepOutcomes :
         sched' = [sched EXCEPT !.pc = IF out = "ok" THEN "read"
                                       ELSE "exit_exc"]
    /\ UNCHANGED notSched

\* lines 69-78: the bulk reader is built and read_all_points is called
ReadAllPoints ==
    /\ sched.pc = "read"
    /\ \E out \in StepOutcomes, r \in SchedReadings :
         sched' = IF out = "ok"
                  THEN [sched EXCEPT !.pc = "write", !.reading = r]
                  ELSE [sched EXCEPT !.pc = "exit_exc"]
    /\ UNCHANGED notSched

\* lines 81-98: the record is built and appended to the readings file, or
\* opening the file raises and nothing is written
SaveReadings ==
    /\ sched.pc = "write"
    /\ \E out \in StepOutcomes :
         sched' =
           IF out = "ok"
           THEN [sched EXCEPT
                   !.pc = "exit",
                   !.output_file =
                       Append(sched.output_file,
                              [cycle |-> sched.cycle_count,
                               reading |-> sched.reading]),
                   !.appended = sched.appended + 1]
           ELSE [sched EXCEPT !.pc = "exit_exc"]
    /\ UNCHANGED notSched

\* the end of the with-block: BravidaClient.__exit__ (bravida_client.py,
\* 75-81) closes context and browser and stops Playwright, without a try.
\* When it returns, the cycle is complete ("exit"), or the exception that
\* left the block goes on to the handler of 106 ("exit_exc") or the
\* KeyboardInterrupt to the handler of 114 ("exit_int"). When it raises,
\* its exception takes the place of the one in flight and is caught at 106.
ClientExit ==
    /\ sched.pc \in {"exit", "exit_exc", "exit_int"}
    /\ \E out \in StepOutcomes :
         sched' =
           IF out = "raise"
           THEN [CycleError(sched) EXCEPT
                   !.swallowed = IF sched.pc = "exit_int"
                                 THEN sched.swallowed + 1
                                 ELSE sched.swallowed]
           ELSE IF sched.pc = "exit" THEN [sched EXCEPT !.pc = "sleep"]
           ELSE IF sched.pc = "exit_exc" THEN CycleError(sched)
           ELSE [sched EXCEPT !.pc = "returned", !.rc = 0]
    /\ UNCHANGED notSched

\* line 112: time.sleep(3600) returns
SchedSleep ==
    /\ sched.pc = "sleep"
    /\ sched' = [sched EXCEPT !.pc = "top", !.sleeps = sched.sleeps + 1]
    /\ UNCHANGED notSched

\* a KeyboardInterrupt is raised in the main thread inside the outer try
\* (45-112): `except Exception` (106) does not catch it; with the client
\* open it first runs __exit__, otherwise it reaches line 114 and the
\* function returns 0
KeyboardInterrupt ==
    /\ sched.pc \in {"top", "enter", "sleep"} \cup ClientOpen
    /\ sched.interrupts < MaxInterrupts
    /\ sched' =
         IF sched.pc \in ClientOpen
         THEN [sched EXCEPT !.pc = "exit_int",
                            !.interrupts = sched.interrupts + 1]
         ELSE [sched EXCEPT !.pc = "returned", !.rc = 0,
                            !.interrupts = sched.interrupts + 1]
    /\ UNCHANGED notSched

SchedNext ==
    \/ StartCycle
    \/ EnterClient
    \/ RefreshSession
    \/ ReadAllPoints
    \/ SaveReadings
    \/ ClientExit
    \/ SchedSleep
    \/ KeyboardInterrupt

SchedSpec == SchedInit /\ [][SchedNext]_vars

-----------------------------------------------------------------------------
\* C21: once the interrupt has arrived during the sleep between cycles, no
\* cycle starts and nothing is read, actuated, logged or written any more;
\* the state file holds the state of the last cycle that ran its plan (its
\* class key and the time of its cooldown check).
C21_CooperativeCancellation ==
    /\ [][signal' = "stop" =>
            /\ pc' = "cancelled"
            /\ cycle' = cycle
            /\ calls' = calls
            /\ log' = log
            /\ state_file' = state_file
            /\ executed' = executed]_vars
    /\ [](signal = "stop" =>
            /\ ~config.once
            /\ cyc.path \in {"execute", "suppressed", "missing"}
            /\ executed # <<>> =>
                 /\ state_file.kind = "object"
                 /\ state_file.last_action_key = executed[Len(executed)][1]
                 /\ state_file.last_action_ts = executed[Len(executed)][2])

\* C21 witness: the interrupt arrived in the sleep after the second cycle,
\* which was suppressed; the state is the one the first cycle wrote
C21_Witness ==
    /\ signal = "stop"
    /\ pc = "cancelled"
    /\ cycle = 2
    /\ cyc.path = "suppressed"
    /\ Len(executed) = 1
    /\ state_file.last_action_ts = StartTime

\* the conditions and the plan of the current cycle have been computed
Classified == pc = "cooldown" \/ Checked

\* C22: high_rh is true exactly when the indoor humidity is at or above
\* max_rh; with the humidity above max_rh, no outdoor sensor configured and
\* no air-quality trigger the class key is "high_rh", the plan is the
\* on_high_rh list, and on the execute path the calls made are those of the
\* on_high_rh actions, in order, all of them once the cycle has ended.
C22_HighRh ==
    Classified =>
        /\ conditions.high_rh
             <=> readings.indoor_rh.v >= config.thresholds.max_rh
        /\ (/\ readings.indoor_rh.v > config.thresholds.max_rh
            /\ ~config.sensors.outdoor_temp
            /\ ~conditions.poor_air_quality) =>
              /\ action_key = "high_rh"
              /\ selected_actions = TableGet(config.actions, "on_high_rh")
              /\ cyc.path = "execute" =>
                   /\ PlanCallSeq
                        = CallsOf(SubSeq(TableGet(config.actions, "on_high_rh"),
                                         1, Len(Reached)))
                   /\ pc \in {"end_cycle", "returned"} =>
                        PlanCallSeq = CallsOf(TableGet(config.actions, "on_high_rh"))
              /\ cyc.path = "suppressed" => PlanCalls = {}

\* C22 witness: the humidity equals max_rh, no outdoor sensor is configured,
\* and the two on_high_rh actions have been carried out
C22_Witness ==
    /\ pc = "returned"
    /\ readings.indoor_rh.v = config.thresholds.max_rh
    /\ ~config.sensors.outdoor_temp
    /\ conditions.high_rh
    /\ action_key = "high_rh"
    /\ PlanCallSeq = <<<<"unforce", "damper", NoneStr>>, <<"force", "fan", "80">>>>

\* C23: condensation_risk is true exactly when the outdoor temperature was
\* read and parsed and is at or below dew point - condensation_margin_c; it
\* is false whenever the outdoor sensor is not configured or its reading has
\* no parsed value.
C23_CondensationRisk ==
    Classified =>
        /\ conditions.condensation_risk
             <=> /\ config.sensors.outdoor_temp
                 /\ readings.outdoor_temp_c.has
                 /\ readings.outdoor_temp_c.v
                      <= _dew_point_c(readings.indoor_temp_c.v, readings.indoor_rh.v)
                         - config.thresholds.condensation_margin_c
        /\ (~config.sensors.outdoor_temp \/ ~readings.outdoor_temp_c.has)
             => ~conditions.condensation_risk

\* C23 witness: the outdoor temperature equals dew point - margin
C23_Witness ==
    /\ Classified
    /\ readings.outdoor_temp_c.has
    /\ readings.outdoor_temp_c.v
         = _dew_point_c(readings.indoor_temp_c.v, readings.indoor_rh.v)
           - config.thresholds.condensation_margin_c
    /\ conditions.condensation_risk
    /\ action_key = "condensation_risk"

\* C24: poor_air_quality is true exactly when a CO threshold is configured,
\* a CO value was parsed and it is at or above the threshold, or the same
\* for CO2; a sub-term without threshold or without parsed value is false.
C24_AirQuality ==
    Classified =>
        LET co  == /\ config.thresholds.max_co_ppm.has
                   /\ config.sensors.co /\ readings.co_ppm.has
                   /\ readings.co_ppm.v >= config.thresholds.max_co_ppm.v
            co2 == /\ config.thresholds.max_co2_ppm.has
                   /\ config.sensors.co2 /\ readings.co2_ppm.has
                   /\ readings.co2_ppm.v >= config.thresholds.max_co2_ppm.v
        IN  /\ conditions.poor_air_quality <=> (co \/ co2)
            /\ (~readings.co_ppm.has /\ ~readings.co2_ppm.has)
                 => ~conditions.poor_air_quality
            /\ (~config.thresholds.max_co_ppm.has
                  /\ ~config.thresholds.max_co2_ppm.has)
                 => ~conditions.poor_air_quality

\* C24 witness: CO2 equals its threshold while CO is below its own, with
\* high humidity and condensation risk as well; the class is
\* poor_air_quality
C24_Witness ==
    /\ Classified
    /\ readings.co2_ppm.has
    /\ readings.co2_ppm.v = config.thresholds.max_co2_ppm.v
    /\ readings.co_ppm.has
    /\ readings.co_ppm.v < config.thresholds.max_co_ppm.v
    /\ conditions.high_rh
    /\ conditions.condensation_risk
    /\ conditions.poor_air_quality
    /\ action_key = "poor_air_quality"

\* C25 as stated: a cycle whose two required readings parsed is never cut
\* short by an optional sensor: whatever the reads of the outdoor, CO and
\* CO2 points did, a condition whose reading is missing is false, the cycle
\* comes to its cooldown check with a plan and, on the execute path, ends
\* with its state persisted.
C25_OptionalSensorsNeverAbort ==
    (readings.indoor_temp_c.has /\ readings.indoor_rh.has) =>
        /\ Classified =>
             /\ ~readings.outdoor_temp_c.has => ~conditions.condensation_risk
             /\ (~readings.co_ppm.has /\ ~readings.co2_ppm.has)
                  => ~conditions.poor_air_quality
        /\ CycleOver =>
             /\ Checked
             /\ cyc.path = "execute" =>
                  state_file = SavedState(action_key, now_ts, all_ok)

\* C26: the conditions and the plan of a cycle are a function of its
\* readings, the thresholds, the action table and the combine flag alone,
\* whatever the state file holds and whatever earlier cycles did; the state
\* that was loaded decides only between the execute path and suppression.
C26_Determinism ==
    /\ Classified =>
         /\ conditions = Classify(readings, config.thresholds)
         /\ action_key = _select_actions(conditions, config.actions,
                                         config.combine_actions).key
         /\ selected_actions = _select_actions(conditions, config.actions,
                                               config.combine_actions).actions
    /\ (Checked /\ last_action_ts.is_number) =>
         (cyc.path = "suppressed"
            <=> /\ action_key = last_action_key
                /\ now_ts - last_action_ts.num < config.cooldown_seconds)

\* C26 witness: the second cycle of a run computed the class and the plan of
\* the first although the state file now holds that class; only the path
\* differs (the plan is suppressed)
C26_Witness ==
    /\ cycle = 2
    /\ cyc.path = "suppressed"
    /\ cyc.start_file.last_action_ts = StartTime
    /\ Len(executed) = 1
    /\ executed[1][1] = action_key
    /\ selected_actions # <<>>

\* the list of the action table that a class key without "+" names
ListOf(actions, key) ==
    CASE key = "poor_air_quality"  -> TableGet(actions, "on_air_quality")
      [] key = "condensation_risk" -> TableGet(actions, "on_condensation_risk")
      [] key = "high_rh"           -> TableGet(actions, "on_high_rh")
      [] key = "normal"            -> TableGet(actions, "on_normal")

\* C27: no step of a run changes the configured action table, and with
\* combine_actions false the plan of every cycle is exactly the list the
\* table holds for its class, so cycles of the same class have the same
\* plan, however many there were.
C27_NoAccumulation ==
    /\ [][config' = config]_vars
    /\ []((Classified /\ ~config.combine_actions)
            => selected_actions = ListOf(config.actions, action_key))
    /\ [](config \in Configs \cup DryRunForeverConfigs \cup UnmappedConfigs
                     \cup EdgeConfigs)

\* C27 witness: the third cycle of a run without combine executed the class
\* the first cycle had executed, after the cooldown, with the plan the table
\* holds for it
C27_Witness ==
    /\ ~config.combine_actions
    /\ cycle = 3
    /\ pc = "end_cycle"
    /\ Len(executed) = 2
    /\ executed[1][1] = executed[2][1]
    /\ executed[2][2] - executed[1][2] >= config.cooldown_seconds
    /\ selected_actions # <<>>
    /\ selected_actions = ListOf(config.actions, action_key)
    /\ Cardinality(PlanCalls) = Len(selected_actions)

\* the auto_evaluate records of the log, in order
EvaluationRecords == SelectSeq(log, LAMBDA r : r.action = "auto_evaluate")

\* C28: every cycle appends exactly one auto_evaluate record: once a cycle
\* that began is over the log holds one such record per cycle of the run, a
\* failed one for a missing required reading, a success record with the skip
\* reason for a suppressed plan, a success record listing the selected
\* actions otherwise; and an actuator call of the plan is made only when the
\* record of its cycle is in the log.
C28_EveryEvaluationLogged ==
    /\ [](Len(EvaluationRecords) <= cycle)
    /\ []((cyc.path # "none"
            /\ pc \in {"end_cycle", "sleep", "returned", "raised", "stopped",
                        "cancelled"})
           => /\ Len(EvaluationRecords) = cycle
              /\ LET r == EvaluationRecords[cycle]
                 IN  CASE cyc.path = "missing" -> ~r.success
                       [] cyc.path = "suppressed" ->
                            /\ r.success
                            /\ r.message = "Cooldown active; skipping actions."
                       [] OTHER ->
                            /\ r.success
                            /\ "selected_actions" \in r.keys
                            /\ r.selected_actions = selected_actions)
    /\ [][(Len(calls') > Len(calls) /\ calls'[Len(calls')].in_plan)
            => /\ Len(EvaluationRecords) = cycle
               /\ log' = log \/ Len(log') = Len(log) + 1
               /\ log[Len(log) - (idx - 1)] = EvaluationRecords[cycle]]_vars

\* the keys the claim names: point, requested value, observed value,
\* message and dry_run
AttemptKeys == {"point", "value", "updated_value", "message", "dry_run"}

\* C29: every step in which _execute_actions takes up an action of the plan
\* appends exactly one log record, for that action, whose success flag is
\* the one the aggregate is formed with (false for a rejected action) and
\* which has the keys point, value, updated_value, message and dry_run; once
\* the executor is over the log ends with one record per action of the plan,
\* in action order.
C29_OneRecordPerAttempt ==
    /\ [][(pc = "execute" /\ (idx' # idx \/ calls' # calls))
            => LET a == selected_actions[idx]
                   r == log'[Len(log')]
               IN  /\ log' = Append(log, r)
                   /\ idx' = idx + 1
                   /\ r.point = a.point
                   /\ r.action # "auto_evaluate"
                   /\ Rejected(a) => ~r.success
                   /\ all_ok' = (all_ok /\ r.success)
                   /\ AttemptKeys \subseteq r.keys]_vars
    /\ []((cyc.path = "execute" /\ pc # "execute")
            => /\ idx = Len(selected_actions) + 1
               /\ Len(ActionRecords) = Len(selected_actions)
               /\ \A k \in 1..Len(selected_actions) :
                    ActionRecords[k].point = selected_actions[k].point)

\* C30: no step of the program removes, truncates or rewrites a record of
\* the action log: after every step the log that was there before is a
\* prefix of the log.
C30_AppendOnly ==
    [][/\ Len(log') >= Len(log)
       /\ SubSeq(log', 1, Len(log)) = log]_vars

\* C31: the state file a stopped process left is what the first cycle of
\* the next process loads: when it holds the class key that cycle selects
\* and a timestamp less than cooldown_seconds before the cycle's now, the
\* cycle is suppressed (no plan call, state file untouched); and when there
\* is no state file, a first cycle whose required readings parsed has, once
\* it is over, executed its plan and created the state file.
C31_DurableCooldown ==
    /\ (/\ cycle = 1
        /\ Checked
        /\ cyc.start_file.kind = "object"
        /\ cyc.start_file.ts_is_number
        /\ action_key = cyc.start_file.last_action_key
        /\ now_ts - cyc.start_file.last_action_ts < config.cooldown_seconds)
       => /\ cyc.path = "suppressed"
          /\ PlanCalls = {}
          /\ state_file = cyc.start_file
    /\ (/\ cycle = 1
        /\ cyc.start_file.kind = "absent"
        /\ cyc.path # "none"
        /\ readings.indoor_temp_c.has
        /\ readings.indoor_rh.has
        /\ CycleOver)
       => /\ cyc.path = "execute"
          /\ PlanCallSeq = CallsOf(selected_actions)
          /\ state_file = SavedState(action_key, now_ts, all_ok)

\* C32: read_all_points terminates under every interleaving of its worker
\* threads and every choice of reads that fail or raise; the state it returns
\* has exactly one entry per defined point; the entry of a point is what its
\* own read gave (success false when it failed or raised), and an entry, once
\* collected, is not changed by what happens to the other points.
C32_IsolatedParallelReads ==
    /\ [](bulk.pc = "returned" =>
            /\ DOMAIN bulk.system_state.points = BulkPoints
            /\ \A p \in BulkPoints :
                 /\ bulk.system_state.points[p] = EntryOf(p, bulk.read[p])
                 /\ bulk.system_state.points[p].success
                      <=> bulk.read[p] = "ok")
    /\ [][\A p \in DOMAIN bulk.points :
            /\ p \in DOMAIN bulk'.points
            /\ bulk'.points[p] = bulk.points[p]]_vars
    /\ <>(bulk.pc = "returned")

\* C32 witness: with two workers, one read succeeded, one failed and one
\* raised, the point that raised was collected first, and the state was
\* returned
C32_Witness ==
    /\ bulk.pc = "returned"
    /\ bulk.max_workers = 2
    /\ bulk.read["360.005-RT40"] = "raise"
    /\ bulk.read["360.005-RH40"] = "ok"
    /\ bulk.read["360.005-SB40"] = "fail"
    /\ bulk.system_state.humidity_avg = Some(40)

DewTolerance == 5

\* the bound of C34 for the application that has returned
DewBound ==
    /\ ~dewcalc.raised
    /\ (dewcalc.rh_percent < 100) => dewcalc.result < dewcalc.temp_c
    /\ (dewcalc.rh_percent = 100) =>
         /\ dewcalc.result - dewcalc.temp_c <= DewTolerance
         /\ dewcalc.temp_c - dewcalc.result <= DewTolerance
    /\ (dewcalc.rh_percent <= 0) =>
         dewcalc.result = _dew_point_c(dewcalc.temp_c, 0)

-----------------------------------------------------------------------------
(* The exit status of the batch command (checked under BatchSpec).          *)

\* operation i of the batch obtained a successful result
Succeeded(i) ==
    \E p \in EventsOf("log", i) : batch.trace[p].success

\* C35: the batch command returns 0 if and only if every operation of the
\* list is well-formed and obtained a successful result within its attempts;
\* a malformed operation gets no actuator call; the exit status is 1 as soon
\* as an operation already passed was malformed or exhausted its attempts,
\* and every well-formed operation passed, or all of them once the command
\* has returned, was processed (called at least once when retries >= 1).
C35_BatchExitStatus ==
    LET ops    == batch.operations
        passed == 1..(batch.i - 1)
        bad(j) == BatchInvalid(ops[j]) \/ ~Succeeded(j)
    IN  /\ batch.pc = "done" =>
             /\ batch.i = Len(ops) + 1
             /\ batch.exit_code = 0 <=>
                  \A i \in 1..Len(ops) : ~BatchInvalid(ops[i]) /\ Succeeded(i)
        /\ \A i \in 1..Len(ops) :
             BatchInvalid(ops[i]) => EventsOf("call", i) = {}
        /\ batch.exit_code = (IF \E j \in passed : bad(j) THEN 1 ELSE 0)
        /\ \A j \in passed :
             (~BatchInvalid(ops[j]) /\ batch.retries >= 1) =>
                 EventsOf("call", j) # {}

\* a malformed first operation gave exit status 1 and the second operation
\* was still called and succeeded
C35_Witness ==
    /\ batch.pc = "done"
    /\ batch.exit_code = 1
    /\ BatchInvalid(batch.operations[1])
    /\ Len(batch.operations) = 2
    /\ Succeeded(2)

\* C40: with retries <= 0 the batch command makes no actuator call and
\* writes no attempt record for any operation (and does not sleep), and it
\* returns exit status 1 whenever the list holds a well-formed operation.
C40_NoRetryBudget ==
    batch.retries <= 0 =>
        /\ batch.trace = <<>>
        /\ (/\ batch.pc = "done"
            /\ \E i \in 1..Len(batch.operations) :
                  ~BatchInvalid(batch.operations[i]))
           => batch.exit_code = 1

\* a batch of two well-formed operations returned with retries below 1
C40_Witness ==
    /\ batch.pc = "done"
    /\ batch.retries = -1
    /\ batch.exit_code = 1
    /\ batch.trace = <<>>
    /\ \A i \in 1..Len(batch.operations) : ~BatchInvalid(batch.operations[i])


-----------------------------------------------------------------------------
(* Dry run, rejected actions and the persisted state of the control loop    *)
(* (checked under Spec).                                                    *)

\* C37: a force of the control loop reaches the actuator with dry_run =
\* false only if the dry_run of the configuration is false and the --dry-run
\* flag is absent; with dry_run = true in the configuration every force is a
\* dry run, whether the flag is given or not.
C37_DryRunOnlySwitchedOn ==
    \A i \in DOMAIN calls :
        calls[i].op = "force" =>
            /\ ~calls[i].dry_run => (~config.dry_run /\ ~config.cli_dry_run)
            /\ config.dry_run => calls[i].dry_run

\* a force went out as a dry run because of the configuration alone
C37_Witness ==
    /\ config.dry_run
    /\ ~config.cli_dry_run
    /\ \E i \in DOMAIN calls : calls[i].op = "force" /\ calls[i].dry_run

\* the operations _execute_actions carries out
SupportedOps == {"force", "unforce", "read"}

\* an action spec without a point, or whose operation is named and is not
\* one of the supported ones
Malformed(a) ==
    \/ a.point \in {NoneStr, ""}
    \/ a.action # NoneStr /\ Lower(a.action) \notin SupportedOps

\* C39: when _execute_actions visits an action with no point, or with an
\* operation other than force, unforce and read, it appends one failed
\* auto_action record, makes no actuator call, sets the aggregate to false
\* and goes on to the next action; when it visits an action that names no
\* operation and has a point and a value, it calls force_point with them.
C39_MalformedRejected ==
    /\ [][(pc = "execute" /\ idx <= Len(selected_actions)
             /\ Malformed(selected_actions[idx]))
          => /\ Len(log') = Len(log) + 1
             /\ SubSeq(log', 1, Len(log)) = log
             /\ log'[Len(log')].action = "auto_action"
             /\ ~log'[Len(log')].success
             /\ log'[Len(log')].message =
                  (IF selected_actions[idx].point \in {NoneStr, ""}
                   THEN "Missing point." ELSE "Unsupported action.")
             /\ calls' = calls
             /\ all_ok' = FALSE
             /\ idx' = idx + 1
             /\ pc' = "execute"
             /\ selected_actions' = selected_actions]_vars
    /\ [][(pc = "execute" /\ idx <= Len(selected_actions)
             /\ selected_actions[idx].action = NoneStr
             /\ selected_actions[idx].point \notin {NoneStr, ""}
             /\ selected_actions[idx].value # NoneStr)
          => calls' = Append(calls,
                 Call("force", selected_actions[idx].point,
                      selected_actions[idx].value,
                      config.dry_run \/ config.cli_dry_run, TRUE))]_vars

\* a plan of four actions has been run to its end: the first has no point,
\* the third an unsupported operation, only the fourth reached the actuator,
\* and the aggregate is false
C39_Witness ==
    /\ pc = "end_cycle"
    /\ cyc.path = "execute"
    /\ Len(selected_actions) = 4
    /\ selected_actions[1].point = NoneStr
    /\ selected_actions[3].action = "toggle"
    /\ PlanCallSeq = <<<<"read", "fan", NoneStr>>>>
    /\ ~all_ok

\* C38 as stated: when _execute_actions has gone through a plan without a
\* single actuator call (an empty plan, or every action rejected) and the
\* cycle ends, the persisted controller state is left as it was.
C38_StateOnlyAfterCalls ==
    [][(pc = "execute" /\ idx > Len(selected_actions) /\ PlanCalls = {}
          /\ pc' = "end_cycle")
       => state_file' = state_file]_vars

-----------------------------------------------------------------------------
(* Properties of run_hourly_scheduler (checked under SchedSpec).            *)

\* C36 as stated: an error in a step of a cycle does not end the loop (the
\* function returns only after an interrupt, with 0, and a sleep is followed
\* by the next cycle); the cycle number grows by exactly 1 per cycle; when a
\* cycle is over, it has appended exactly one record, carrying its number,
\* if it completed without error, and none if it failed; once an interrupt
\* has arrived no cycle is started or finished and no sleep begins: the loop
\* stops and the function returns 0.
C36_SchedulerResilience ==
    /\ [](sched.pc = "returned" => (sched.interrupts > 0 /\ sched.rc = 0))
    /\ [][/\ sched'.cycle_count \in {sched.cycle_count, sched.cycle_count + 1}
          /\ (sched.pc = "top" /\ sched'.pc = "enter")
               => sched'.cycle_count = sched.cycle_count + 1
          /\ (sched.pc = "sleep" /\ sched'.pc # "sleep")
               => sched'.pc \in {"top", "returned"}]_vars
    /\ [](sched.pc = "sleep" =>
            IF sched.failed
            THEN sched.appended = 0
            ELSE /\ sched.appended = 1
                 /\ sched.output_file[Len(sched.output_file)].cycle
                      = sched.cycle_count)
    /\ [](sched.interrupts > 0 => sched.pc \in {"exit_int", "returned"})

====
